---- MODULE Spec2Model ----
(***************************************************************************)
(* Verification model of the multi-source contract verification and risk   *)
(* scoring pipeline (raket-2 ContractVerifier / LiquidityLockChecker and   *)
(* src_analyse-2 TokenAnalyzer).                                           *)
(*                                                                         *)
(* The module holds several state machines, one per component, over one    *)
(* set of variables; each specification moves the variables of its own     *)
(* component and leaves the others at their constructed values.            *)
(*   SpecRate      ContractVerifier._respect_rate_limit under concurrent   *)
(*                 callers and a simulated clock                           *)
(*   SpecBatch     verify_contracts_batch with any answers of the sources  *)
(*   SpecOrder     verify_contracts_batch with answers fixed beforehand    *)
(*   SpecMulti     verify_contract_multi_source under concurrent callers   *)
(*   SpecCache     the verification and lock caches over time              *)
(*   SpecRepeat    one verifier asked again about the same contracts       *)
(*   SpecPipe      TokenAnalyzer.analyze_all_tokens, with the steps of its *)
(*                 verifier and of its security stage, and its sync version*)
(*   SpecRisk      the analysis of one token, stage by stage               *)
(*   SpecScan      TokenScanner._make_async_request                        *)
(*   SpecLockScore LiquidityLockChecker.get_lock_score                     *)
(*   SpecBatchLive verify_contracts_batch under the event loop's fairness  *)
(*   SpecSecurity  SecurityAnalyzer.analyze_token_security and the token   *)
(*   SpecScorers   the weighted sum of each of the three scorers           *)
(***************************************************************************)
EXTENDS Integers, Sequences, FiniteSets, TLC

(***************************************************************************)
(* Rate limiter: ContractVerifier._respect_rate_limit                      *)
(* Time is counted in tenths of a second, so that the RPC delay of 0.1 s   *)
(* is the integer 1.                                                       *)
(***************************************************************************)
VARIABLES
    now,                \* simulated clock, time.time(), in tenths of a second
    request_counters,   \* self.request_counters : api -> count
    counter_reset_time, \* self.counter_reset_time
    last_request_time,  \* self.last_request_time : api -> time, NoTime when the key is absent
    rl_pc,              \* per task: where the task is inside _respect_rate_limit
    rl_api,             \* per task: the api_type argument of the running call
    rl_current_time,    \* per task: the local current_time read at entry
    rl_wake,            \* per task: the time at which asyncio.sleep returns
    rl_calls,           \* number of calls of _respect_rate_limit started so far
    obs_start,          \* observer: start of the observed 60-second window, NoTime before it starts
    obs_count,          \* observer: api -> requests admitted inside the observed window
    adm_last,           \* observer: api -> time of the latest admission, NoTime if none
    adm_gap,            \* observer: api -> time between the latest two admissions (capped at the
                        \* source's delay), NoTime before the second admission
    win_count,          \* observer: api -> requests admitted since counter_reset_time was set
    reset_early         \* observer: a counter was zeroed before its window was over

rateVars == <<now, request_counters, counter_reset_time, last_request_time,
              rl_pc, rl_api, rl_current_time, rl_wake, rl_calls,
              obs_start, obs_count, adm_last, adm_gap, win_count, reset_early>>

(***************************************************************************)
(* Batch verifier: ContractVerifier.verify_contracts_batch                 *)
(***************************************************************************)
VARIABLES
    contracts,          \* the argument: a list of <<address, chain>> pairs
    vb_pc,              \* where verify_contracts_batch is: "init", "gather", "done"
    vb_chain,           \* index of the chain being processed in contracts_by_chain
    vb_tasks,           \* the chunk tasks handed to asyncio.gather for that chain
    vb_results,         \* the local dict results, the returned value once vb_pc = "done"
    vb_log,             \* observer: for every finished chunk, what it was asked and what it returned
    goplus_semaphore,   \* free slots of self.goplus_semaphore
    inflight,           \* api -> HTTP requests sent and not yet answered
    cache               \* self.cache : <<chain, lowercased address>> -> <<time, result>>

batchVars == <<contracts, vb_pc, vb_chain, vb_tasks, vb_results, vb_log>>

\* The batch verifier against sources whose answers are fixed beforehand
VARIABLES
    responses,          \* what each source answers: fixed when the call starts
    vb_order            \* observer: the chunks in the order in which they finished

orderVars == <<responses, vb_order>>

\* Single-contract verifier (verify_contract_multi_source) and lock checker
VARIABLES
    mv_pc,          \* per caller: where its verify_contract_multi_source call stands
    mv_address,     \* per caller: contract_address
    mv_chain,       \* per caller: chain
    mv_result,      \* per caller: result, while the call runs
    mv_unavail,     \* observer: a source the running call asked gave no usable answer
    returned,       \* observer: what the last finished call returned
    lock_cache,     \* LiquidityLockChecker.cache
    cache_calls,    \* number of calls started so far
    ticks,          \* number of clock steps so far
    puts,           \* observer: the last store under each key of each cache
    lookups         \* observer: the last lookup of each cache, with what it returned

multiVars == <<mv_pc, mv_address, mv_chain, mv_result, mv_unavail, returned, lock_cache,
               cache_calls, ticks, puts, lookups>>
sharedVars == <<goplus_semaphore, inflight, cache>>

\* Token analyzer pipeline (TokenAnalyzer.analyze_all_tokens and its sync version)
VARIABLES
    tokens,               \* TokenAnalyzer.tokens
    token_ids,            \* the identity of the Token object at each position of tokens:
                          \* the position load_from_json gave it
    pipe_pc,              \* where the analysis stands
    pipe_path,            \* which entry point runs: "async", "sync", or "none" before the call
    pipe_index,           \* position of the loop of analyze_security or of the scoring loop
    scam_tokens,          \* the output lists, as identities of Token objects
    high_risk_tokens,
    medium_risk_tokens,
    low_risk_tokens,
    stages_done           \* observer: the stages that have returned

pipeVars == <<tokens, token_ids, pipe_pc, pipe_path, pipe_index, scam_tokens, high_risk_tokens,
              medium_risk_tokens, low_risk_tokens, stages_done>>

\* DEXScreener client (TokenScanner._make_async_request)
VARIABLES
    adaptive_delay,     \* self._adaptive_delay, in microseconds
    dex_semaphore,      \* free slots of self.dex_semaphore
    sc_pc,              \* per caller: "idle", "pre_sleep", "http", "body", "backoff"
    sc_attempt,         \* per caller: the loop variable attempt
    sc_sleep,           \* per caller: the shortest the current sleep can last, in microseconds
    sc_done,            \* observer: the last call that returned: its result ("json" or
                        \* "empty"), its HTTP attempts, how many of them failed, and
                        \* what its last attempt did to the adaptive delay
    sc_update,          \* observer, per caller: the adaptive delay before and after the
                        \* status of the attempt whose body is awaited
    sc_calls,           \* number of calls started so far
    sc_made,            \* observer, per caller: HTTP attempts the running call has made
    sc_failed,          \* observer, per caller: attempts of the running call that failed
    sc_last,            \* observer: the adaptive delay before and after the last response
    sc_seen             \* observer: the kinds of adaptive-delay updates that have happened

scanVars == <<adaptive_delay, dex_semaphore, sc_pc, sc_attempt, sc_sleep,
              sc_done, sc_update, sc_calls, sc_made, sc_failed, sc_last, sc_seen>>

\* Lock scoring on its own (LiquidityLockChecker.get_lock_score)
VARIABLES
    lock_scored_before, \* a get_lock_score call: its argument and what it returned
    lock_scored         \* the call after that one

lockScoreVars == <<lock_scored, lock_scored_before>>

\* The analysis of one token, stage by stage (TokenAnalyzer and Token)
VARIABLES
    risk_token,         \* the token
    risk_pc,            \* the stages it went through: "new", "verified", "locked", "scored",
                        \* and "rescored" once calculate_risk_score has run again
    risk_unavailable,   \* observer: the verifier had no entry for the token
    risk_factors,       \* Token.risk_factors, the reasons as short tags
    risk_first          \* observer: what the first calculate_risk_score left on the token

riskVars == <<risk_token, risk_pc, risk_unavailable, risk_factors, risk_first>>

\* One verifier asked again about contracts it has verified
VARIABLES
    rp_rounds,          \* how many times verify_contracts_batch was called again
    rp_repeat           \* observer: the requests that went out for a key the cache held fresh

repeatVars == <<rp_rounds, rp_repeat>>

\* Security analysis of one token, and the weighted sum of a scorer
VARIABLES
    sec_pc,             \* "none" | "new" | "analyzed" | "stored"
    sec_in,             \* what the scorer meets: token_data and the answers of the sources,
                        \* or the report handed to one of the two other scorers
    sec_report,         \* the TokenSecurityReport
    sec_token,          \* the security fields of the Token
    ws_scorer,          \* the scorer whose weighted sum is computed, "none" when there is none
    ws_scores,          \* its contributions, signal -> float, <<>> before they are computed
    ws_overall          \* its overall_score, NotComputed before it is computed

secVars == <<sec_pc, sec_in, sec_report, sec_token, ws_scorer, ws_scores, ws_overall>>

\* The variables of the components specified further down.
restVars == <<orderVars, scanVars, lockScoreVars, riskVars, repeatVars, secVars>>

vars == <<rateVars, batchVars, sharedVars, multiVars, pipeVars, restVars>>

\* ---- bounds of the model ----
NumTasks == 2
MaxCalls == 5
MaxTime == 1300
\* The per-minute limits are read from the environment (config.py:37-39,
\* defaults 30, 12, 12); the model runs the limiter configured with small ones.
GOPLUS_RATE_LIMIT == 3
ETHERSCAN_RATE_LIMIT == 2
BSCSCAN_RATE_LIMIT == 2

\* ---- program constants (tenths of a second) ----
RateWindow == 600
RpcDelay == 1

NoTime == 0 - 1
Tasks == 1..NumTasks
APIs == {"goplus", "etherscan", "bscscan", "rpc"}
IdleSteps == {RateWindow \div 2, RateWindow}

\* self.request_delays
request_delays ==
    [a \in APIs |->
        CASE a = "goplus" -> RateWindow \div GOPLUS_RATE_LIMIT
          [] a = "etherscan" -> RateWindow \div ETHERSCAN_RATE_LIMIT
          [] a = "bscscan" -> RateWindow \div BSCSCAN_RATE_LIMIT
          [] OTHER -> RpcDelay]

\* The per-minute limit each source is configured with (rpc has none).
RateLimitOf(a) ==
    CASE a = "goplus" -> GOPLUS_RATE_LIMIT
      [] a = "etherscan" -> ETHERSCAN_RATE_LIMIT
      [] a = "bscscan" -> BSCSCAN_RATE_LIMIT
      [] OTHER -> 0

Min(a, b) == IF a <= b THEN a ELSE b

(***************************************************************************)
(* Python floats: IEEE-754 binary64 with round-to-nearest, ties to even.   *)
(* A natural number of any size is a sequence of limbs in base 2^14, the   *)
(* least significant first and without leading zeros; a float is           *)
(* sign * mant * 2^exp with mant = 0 or 2^52 <= mant < 2^53.               *)
(***************************************************************************)
LimbBits == 2 * 7
LimbBase == 2 * 8192
MantBits == 52 + 1

RECURSIVE Pow2(_)
Pow2(n) == IF n = 0 THEN 1 ELSE 2 * Pow2(n - 1)

RECURSIVE IntBitLen(_)
IntBitLen(n) == IF n = 0 THEN 0 ELSE 1 + IntBitLen(n \div 2)

RECURSIVE Zeros(_)
Zeros(n) == IF n = 0 THEN <<>> ELSE <<0>> \o Zeros(n - 1)

RECURSIVE BigTrim(_)
BigTrim(a) ==
    IF a = <<>> \/ a[Len(a)] # 0 THEN a ELSE BigTrim(SubSeq(a, 1, Len(a) - 1))

RECURSIVE BigOfInt(_)
BigOfInt(n) == IF n = 0 THEN <<>> ELSE <<n % LimbBase>> \o BigOfInt(n \div LimbBase)

Limb(a, i) == IF i <= Len(a) THEN a[i] ELSE 0

RECURSIVE BigAddFrom(_, _, _, _)
BigAddFrom(a, b, i, carry) ==
    IF i > Len(a) /\ i > Len(b)
    THEN IF carry = 0 THEN <<>> ELSE <<carry>>
    ELSE LET total == Limb(a, i) + Limb(b, i) + carry
         IN  <<total % LimbBase>> \o BigAddFrom(a, b, i + 1, total \div LimbBase)

BigAdd(a, b) == BigAddFrom(a, b, 1, 0)

RECURSIVE BigSubFrom(_, _, _, _)
BigSubFrom(a, b, i, borrow) ==
    IF i > Len(a) THEN <<>>
    ELSE LET diff == a[i] - Limb(b, i) - borrow
         IN  <<(diff + LimbBase) % LimbBase>>
                 \o BigSubFrom(a, b, i + 1, IF diff < 0 THEN 1 ELSE 0)

\* a - b for a >= b
BigSub(a, b) == BigTrim(BigSubFrom(a, b, 1, 0))

RECURSIVE BigCmpAt(_, _, _)
BigCmpAt(a, b, i) ==
    IF i = 0 THEN 0
    ELSE IF a[i] # b[i] THEN (IF a[i] < b[i] THEN -1 ELSE 1)
    ELSE BigCmpAt(a, b, i - 1)

BigCmp(a, b) ==
    IF Len(a) # Len(b) THEN (IF Len(a) < Len(b) THEN -1 ELSE 1)
    ELSE BigCmpAt(a, b, Len(a))

RECURSIVE BigMulSmallFrom(_, _, _, _)
BigMulSmallFrom(a, k, i, carry) ==
    IF i > Len(a) THEN (IF carry = 0 THEN <<>> ELSE <<carry>>)
    ELSE LET prod == a[i] * k + carry
         IN  <<prod % LimbBase>> \o BigMulSmallFrom(a, k, i + 1, prod \div LimbBase)

\* a * k for 0 <= k < 2^14
BigMulSmall(a, k) == IF k = 0 THEN <<>> ELSE BigMulSmallFrom(a, k, 1, 0)

RECURSIVE BigDivSmallFrom(_, _, _, _)
BigDivSmallFrom(a, k, i, rem) ==
    IF i = 0 THEN <<>>
    ELSE LET cur == rem * LimbBase + a[i]
         IN  BigDivSmallFrom(a, k, i - 1, cur % k) \o <<cur \div k>>

\* a \div k for 0 < k <= 2^14
BigDivSmall(a, k) == BigTrim(BigDivSmallFrom(a, k, Len(a), 0))

BigShl(a, n) ==
    IF a = <<>> THEN <<>>
    ELSE Zeros(n \div LimbBits) \o BigMulSmall(a, Pow2(n % LimbBits))

BigShr(a, n) ==
    IF n \div LimbBits >= Len(a) THEN <<>>
    ELSE BigDivSmall(SubSeq(a, n \div LimbBits + 1, Len(a)), Pow2(n % LimbBits))

\* the n lowest bits of a are all zero
BigLowZero(a, n) ==
    /\ \A i \in 1..(n \div LimbBits) : Limb(a, i) = 0
    /\ Limb(a, n \div LimbBits + 1) % Pow2(n % LimbBits) = 0

BigBitLen(a) ==
    IF a = <<>> THEN 0 ELSE LimbBits * (Len(a) - 1) + IntBitLen(a[Len(a)])

BigOdd(a) == a # <<>> /\ a[1] % 2 = 1

RECURSIVE BigMulFrom(_, _, _)
BigMulFrom(a, b, i) ==
    IF i > Len(b) THEN <<>>
    ELSE BigAdd(BigMulSmall(a, b[i]), <<0>> \o BigMulFrom(a, b, i + 1))

BigMul(a, b) == BigTrim(BigMulFrom(a, b, 1))

FZero == [sign |-> 1, mant |-> <<>>, exp |-> 0]

\* The half below the kept bits of m is set, and more than the half is
\* dropped or the last kept bit is odd: the kept bits are rounded up.
RoundsUp(m, drop, sticky) ==
    /\ BigOdd(BigShr(m, drop - 1))
    /\ (sticky \/ ~BigLowZero(m, drop - 1) \/ BigOdd(BigShr(m, drop)))

\* A mantissa the rounding carried to 54 bits loses its last bit, a zero.
FNormal(sign, rounded, e) ==
    IF BigBitLen(rounded) > MantBits
    THEN [sign |-> sign, mant |-> BigShr(rounded, 1), exp |-> e + 1]
    ELSE [sign |-> sign, mant |-> rounded, exp |-> e]

FRoundBits(sign, m, e, sticky, bits) ==
    IF bits <= MantBits
    THEN [sign |-> sign, mant |-> BigShl(m, MantBits - bits), exp |-> e - (MantBits - bits)]
    ELSE FNormal(sign,
                 IF RoundsUp(m, bits - MantBits, sticky)
                 THEN BigAdd(BigShr(m, bits - MantBits), <<1>>)
                 ELSE BigShr(m, bits - MantBits),
                 e + (bits - MantBits))

\* sign * (m + t) * 2^e rounded to the nearest double, ties to even, where
\* 0 < t < 1 when sticky and t = 0 otherwise.
FRound(sign, m, e, sticky) ==
    IF m = <<>> THEN FZero ELSE FRoundBits(sign, m, e, sticky, BigBitLen(m))

\* float(n) of an int
FromInt(n) ==
    FRound(IF n >= 0 THEN 1 ELSE -1, BigOfInt(IF n >= 0 THEN n ELSE -n), 0, FALSE)

FNeg(x) == IF x.mant = <<>> THEN x ELSE [x EXCEPT !.sign = -x.sign]

FAbs(x) == [x EXCEPT !.sign = 1]

FMul(x, y) ==
    IF x.mant = <<>> \/ y.mant = <<>> THEN FZero
    ELSE FRound(x.sign * y.sign, BigMul(x.mant, y.mant), x.exp + y.exp, FALSE)

\* The sum of two magnitudes with the same exponent e; order tells which of
\* them is the larger.
FAddAligned(x_sign, y_sign, x_aligned, y_aligned, e, order) ==
    FRound(IF x_sign = y_sign \/ order > 0 THEN x_sign ELSE y_sign,
           IF x_sign = y_sign THEN BigAdd(x_aligned, y_aligned)
           ELSE IF order >= 0 THEN BigSub(x_aligned, y_aligned)
           ELSE BigSub(y_aligned, x_aligned),
           e, FALSE)

FAddFrom(x, y, low_exp) ==
    FAddAligned(x.sign, y.sign, BigShl(x.mant, x.exp - low_exp),
                BigShl(y.mant, y.exp - low_exp), low_exp,
                BigCmp(BigShl(x.mant, x.exp - low_exp), BigShl(y.mant, y.exp - low_exp)))

FAdd(x, y) ==
    IF x.mant = <<>> THEN y
    ELSE IF y.mant = <<>> THEN x
    ELSE IF x.exp - y.exp > MantBits + 2 THEN x
    ELSE IF y.exp - x.exp > MantBits + 2 THEN y
    ELSE FAddFrom(x, y, IF x.exp <= y.exp THEN x.exp ELSE y.exp)

FSub(x, y) == FAdd(x, FNeg(y))

RECURSIVE DivLimb(_, _, _)
\* k more bits of the quotient st.q, for a remainder st.r < 2 * d
DivLimb(st, d, k) ==
    IF k = 0 \/ st.r = <<>> THEN [q |-> st.q * Pow2(k), r |-> st.r]
    ELSE IF BigCmp(st.r, d) >= 0
    THEN DivLimb([q |-> 2 * st.q + 1, r |-> BigShl(BigSub(st.r, d), 1)], d, k - 1)
    ELSE DivLimb([q |-> 2 * st.q, r |-> BigShl(st.r, 1)], d, k - 1)

PutLimb(lower, q) == [q |-> lower.q \o <<q>>, r |-> lower.r]

RECURSIVE DivLimbs(_, _, _)
DivLower(high, d, n) == PutLimb(DivLimbs(high.r, d, n - 1), high.q)

\* n more limbs of the quotient, and what is left of the dividend
DivLimbs(r, d, n) ==
    IF n = 0 THEN [q |-> <<>>, r |-> r]
    ELSE DivLower(DivLimb([q |-> 0, r |-> r], d, LimbBits), d, n)

FDivRound(sign, quotient, e) == FRound(sign, quotient.q, e, quotient.r # <<>>)

\* x / y for y # 0: 56 bits of the quotient of the mantissas, rounded
FDiv(x, y) ==
    IF x.mant = <<>> THEN FZero
    ELSE FDivRound(x.sign * y.sign, DivLimbs(x.mant, y.mant, 4),
                   x.exp - y.exp - (4 * LimbBits - 1))

\* -1, 0, 1 as x < y, x = y, x > y
FCmp(x, y) ==
    IF x.mant = <<>> /\ y.mant = <<>> THEN 0
    ELSE IF x.mant = <<>> THEN -y.sign
    ELSE IF y.mant = <<>> THEN x.sign
    ELSE IF x.sign # y.sign THEN x.sign
    ELSE IF x.exp # y.exp THEN (IF x.exp < y.exp THEN -x.sign ELSE x.sign)
    ELSE x.sign * BigCmp(x.mant, y.mant)

FLt(x, y) == FCmp(x, y) < 0
FLe(x, y) == FCmp(x, y) <= 0
FGt(x, y) == FCmp(x, y) > 0
FGe(x, y) == FCmp(x, y) >= 0
\* min(x, y) and max(x, y) of Python: the first argument unless the second is
\* smaller (larger)
FMin(x, y) == IF FLt(y, x) THEN y ELSE x
FMax(x, y) == IF FGt(y, x) THEN y ELSE x

\* The float literals of the scorers and of the DEXScreener signals: the
\* double nearest to the decimal, mant * 2^exp.
\* 0.03 = 8646911284551352 * 2^-58
F0_03 == [sign |-> 1, mant |-> <<7864, 11796, 1310, 1966>>, exp |-> 0 - 58]
\* 0.05 = 7205759403792794 * 2^-57
F0_05 == [sign |-> 1, mant |-> <<6554, 9830, 6553, 1638>>, exp |-> 0 - 57]
\* 0.07 = 5044031582654956 * 2^-56
F0_07 == [sign |-> 1, mant |-> <<4588, 15073, 14417, 1146>>, exp |-> 0 - 56]
\* 0.1 = 7205759403792794 * 2^-56
F0_1 == [sign |-> 1, mant |-> <<6554, 9830, 6553, 1638>>, exp |-> 0 - 56]
\* 0.13 = 4683743612465316 * 2^-55
F0_13 == [sign |-> 1, mant |-> <<12452, 10485, 15728, 1064>>, exp |-> 0 - 55]
\* 0.15 = 5404319552844595 * 2^-55
F0_15 == [sign |-> 1, mant |-> <<13107, 3276, 13107, 1228>>, exp |-> 0 - 55]
\* 0.2 = 7205759403792794 * 2^-55
F0_2 == [sign |-> 1, mant |-> <<6554, 9830, 6553, 1638>>, exp |-> 0 - 55]
\* 0.25 = 4503599627370496 * 2^-54
F0_25 == [sign |-> 1, mant |-> <<0, 0, 0, 1024>>, exp |-> 0 - 54]
\* 0.3 = 5404319552844595 * 2^-54
F0_3 == [sign |-> 1, mant |-> <<13107, 3276, 13107, 1228>>, exp |-> 0 - 54]
\* 0.4 = 7205759403792794 * 2^-54
F0_4 == [sign |-> 1, mant |-> <<6554, 9830, 6553, 1638>>, exp |-> 0 - 54]
\* 0.5 = 4503599627370496 * 2^-53
F0_5 == [sign |-> 1, mant |-> <<0, 0, 0, 1024>>, exp |-> 0 - 53]
\* 0.6 = 5404319552844595 * 2^-53
F0_6 == [sign |-> 1, mant |-> <<13107, 3276, 13107, 1228>>, exp |-> 0 - 53]
\* 0.7 = 6305039478318694 * 2^-53
F0_7 == [sign |-> 1, mant |-> <<9830, 6553, 9830, 1433>>, exp |-> 0 - 53]
\* 0.8 = 7205759403792794 * 2^-53
F0_8 == [sign |-> 1, mant |-> <<6554, 9830, 6553, 1638>>, exp |-> 0 - 53]
\* 0.9 = 8106479329266893 * 2^-53
F0_9 == [sign |-> 1, mant |-> <<3277, 13107, 3276, 1843>>, exp |-> 0 - 53]
\* 1.0 = 4503599627370496 * 2^-52
FOne == [sign |-> 1, mant |-> <<0, 0, 0, 1024>>, exp |-> 0 - 52]


\* Observer: a request of api is admitted at the present time. The observed
\* window starts at an admission the observer picks (watch) and lasts 60 s.
ObserveAdmission(api, watch) ==
    /\ obs_start' = IF watch THEN now ELSE obs_start
    /\ obs_count' = IF watch
                    THEN [obs_count EXCEPT ![api] = 1]
                    ELSE IF obs_start # NoTime /\ now < obs_start + RateWindow
                         THEN [obs_count EXCEPT ![api] = @ + 1]
                         ELSE obs_count
    /\ adm_gap' = IF adm_last[api] = NoTime
                  THEN adm_gap
                  ELSE [adm_gap EXCEPT ![api] =
                           Min(now - adm_last[api], request_delays[api])]
    /\ adm_last' = [adm_last EXCEPT ![api] = now]

\* Observer: the admissions of the window that counter_reset_time opens; a
\* step that moves counter_reset_time opens a new window.
WindowAdmissions ==
    IF counter_reset_time' # counter_reset_time THEN [a \in APIs |-> 0] ELSE win_count

\* Lines 604-605: the call returns, the request is admitted.
RespectAdmit(t, api, ct, counters) ==
    /\ last_request_time' = [last_request_time EXCEPT ![api] = ct]
    /\ request_counters' = [counters EXCEPT ![api] = @ + 1]
    /\ rl_pc' = [rl_pc EXCEPT ![t] = "idle"]
    /\ rl_api' = [rl_api EXCEPT ![t] = "none"]
    /\ rl_current_time' = [rl_current_time EXCEPT ![t] = 0]
    /\ rl_wake' = [rl_wake EXCEPT ![t] = 0]
    /\ \E watch \in {w \in BOOLEAN : w => obs_start = NoTime} :
          ObserveAdmission(api, watch)
    /\ win_count' = [WindowAdmissions EXCEPT ![api] = @ + 1]

\* Whether the spacing check of lines 595-599 puts the caller to sleep.
DelaySleepNeeded(api, ct) ==
    /\ last_request_time[api] # NoTime
    /\ ct - last_request_time[api] < request_delays[api]

\* Lines 595-605: the spacing check, then admission or the spacing sleep.
RespectDelay(t, api, ct, counters) ==
    IF DelaySleepNeeded(api, ct)
    THEN /\ rl_pc' = [rl_pc EXCEPT ![t] = "delay_sleep"]
         /\ rl_api' = [rl_api EXCEPT ![t] = api]
         /\ rl_current_time' = [rl_current_time EXCEPT ![t] = ct]
         /\ rl_wake' = [rl_wake EXCEPT ![t] =
                          now + (request_delays[api] - (ct - last_request_time[api]))]
         /\ request_counters' = counters
         /\ win_count' = WindowAdmissions
         /\ UNCHANGED <<last_request_time, obs_start, obs_count, adm_last, adm_gap>>
    ELSE RespectAdmit(t, api, ct, counters)

\* Lines 578-593: entry of _respect_rate_limit(api) by task t, up to its first await.
RespectEnter(t, api) ==
    /\ rl_pc[t] = "idle"
    /\ rl_calls' = rl_calls + 1
    /\ LET expired == now - counter_reset_time > RateWindow
           counters == IF expired THEN [a \in APIs |-> 0] ELSE request_counters
           reset == IF expired THEN now ELSE counter_reset_time
           wait_time == RateWindow - (now - reset)
       IN  /\ counter_reset_time' = reset
           /\ IF api = "goplus" /\ counters[api] >= GOPLUS_RATE_LIMIT /\ wait_time > 0
              THEN /\ rl_pc' = [rl_pc EXCEPT ![t] = "limit_sleep"]
                   /\ rl_api' = [rl_api EXCEPT ![t] = api]
                   /\ rl_current_time' = [rl_current_time EXCEPT ![t] = now]
                   /\ rl_wake' = [rl_wake EXCEPT ![t] = now + wait_time]
                   /\ request_counters' = counters
                   /\ win_count' = WindowAdmissions
                   /\ UNCHANGED <<last_request_time, obs_start, obs_count, adm_last, adm_gap>>
              ELSE RespectDelay(t, api, now, counters)
    /\ UNCHANGED <<now, reset_early>>

\* Lines 590-605: the per-minute sleep is over.
RespectLimitWake(t) ==
    /\ rl_pc[t] = "limit_sleep"
    /\ now >= rl_wake[t]
    /\ counter_reset_time' = now
    /\ reset_early' = (reset_early \/ now - counter_reset_time < RateWindow)
    /\ RespectDelay(t, rl_api[t], rl_current_time[t],
                    [request_counters EXCEPT ![rl_api[t]] = 0])
    /\ UNCHANGED <<now, rl_calls>>

\* Lines 602-605: the spacing sleep is over.
RespectDelayWake(t) ==
    /\ rl_pc[t] = "delay_sleep"
    /\ now >= rl_wake[t]
    /\ UNCHANGED <<now, counter_reset_time, rl_calls, reset_early>>
    /\ RespectAdmit(t, rl_api[t], rl_current_time[t], request_counters)

Sleepers == {t \in Tasks : rl_pc[t] # "idle"}

\* The clock advances, to the next timer or by an idle step; no timer is skipped.
Tick ==
    /\ \E n \in {rl_wake[t] : t \in Sleepers} \cup {now + d : d \in IdleSteps} :
          /\ n > now
          /\ n <= MaxTime
          /\ \A t \in Sleepers : n <= rl_wake[t]
          /\ now' = n
    /\ UNCHANGED <<request_counters, counter_reset_time, last_request_time,
                   rl_pc, rl_api, rl_current_time, rl_wake, rl_calls,
                   obs_start, obs_count, adm_last, adm_gap, win_count, reset_early>>

\* The clock runs to the next timer of a sleeping task.
SleepTick ==
    /\ \E n \in {rl_wake[t] : t \in Sleepers} :
          /\ n > now
          /\ \A t \in Sleepers : n <= rl_wake[t]
          /\ now' = n
    /\ UNCHANGED <<request_counters, counter_reset_time, last_request_time,
                   rl_pc, rl_api, rl_current_time, rl_wake, rl_calls,
                   obs_start, obs_count, adm_last, adm_gap, win_count, reset_early>>

\* asyncio.sleep returns to task t, which goes on from where it slept
\* (line 590 or line 602).
LimiterWake(t) ==
    IF rl_pc[t] = "limit_sleep" THEN RespectLimitWake(t) ELSE RespectDelayWake(t)

\* The event loop serves the timers of the tasks inside the rate limiter: the
\* sleep of one of them is over, or the clock runs to the next timer.
LimiterStep ==
    /\ \/ \E t \in Tasks : LimiterWake(t)
       \/ SleepTick
    /\ UNCHANGED <<batchVars, sharedVars, multiVars>>

\* Lines 47-61 of __init__: the limiter's fields; no task is inside the limiter.
LimiterConstructed ==
    /\ now = 0
    /\ request_counters = [a \in APIs |-> 0]
    /\ counter_reset_time = 0
    /\ last_request_time = [a \in APIs |-> NoTime]
    /\ rl_pc = [t \in Tasks |-> "idle"]
    /\ rl_api = [t \in Tasks |-> "none"]
    /\ rl_current_time = [t \in Tasks |-> 0]
    /\ rl_wake = [t \in Tasks |-> 0]
    /\ rl_calls = 0

\* Observer: nothing admitted yet; the observed window starts at start.
ObserverConstructed(start) ==
    /\ obs_start = start
    /\ obs_count = [a \in APIs |-> 0]
    /\ adm_last = [a \in APIs |-> NoTime]
    /\ adm_gap = [a \in APIs |-> NoTime]
    /\ win_count = [a \in APIs |-> 0]
    /\ reset_early = FALSE

\* The limiter with the observer free to pick the window it watches.
RateConstructed == LimiterConstructed /\ ObserverConstructed(NoTime)

\* The limiter of a verifier that has served GOPLUS_RATE_LIMIT calls of the
\* primary source, each call made when the one before it had been let
\* through: the first at once, the second after the spacing sleep, the third
\* at once (line 604 stores the time a call came at, not the time it was let
\* through), and so on.  The counter of the source stands at the limit.
LimiterUsed ==
    LET delay == request_delays["goplus"]
        let_through == (GOPLUS_RATE_LIMIT \div 2) * delay
        came == ((GOPLUS_RATE_LIMIT - 1) \div 2) * delay
    IN  /\ now = let_through
        /\ request_counters = [a \in APIs |-> IF a = "goplus" THEN GOPLUS_RATE_LIMIT ELSE 0]
        /\ counter_reset_time = 0
        /\ last_request_time = [a \in APIs |-> IF a = "goplus" THEN came ELSE NoTime]
        /\ rl_pc = [t \in Tasks |-> "idle"]
        /\ rl_api = [t \in Tasks |-> "none"]
        /\ rl_current_time = [t \in Tasks |-> 0]
        /\ rl_wake = [t \in Tasks |-> 0]
        /\ rl_calls = GOPLUS_RATE_LIMIT
        /\ obs_start = 0
        /\ obs_count = [a \in APIs |-> IF a = "goplus" THEN GOPLUS_RATE_LIMIT ELSE 0]
        /\ adm_last = [a \in APIs |-> IF a = "goplus" THEN let_through ELSE NoTime]
        /\ adm_gap = [a \in APIs |-> IF a = "goplus" THEN let_through - came ELSE NoTime]
        /\ win_count = [a \in APIs |-> IF a = "goplus" THEN GOPLUS_RATE_LIMIT ELSE 0]
        /\ reset_early = FALSE

\* The limiter as the verifier's operations use it: the observed window is
\* the first minute after construction.
VerifierRateConstructed == LimiterConstructed /\ ObserverConstructed(0)


(***************************************************************************)
(* Batch verifier: verify_contracts_batch, _process_batch_with_progress,   *)
(* _process_batch_goplus, _process_batch_fallback                          *)
(***************************************************************************)

\* ---- bounds of the model ----
MaxContracts == 3
\* Read from the environment (config.py:35-36, defaults 25 and 8); the model
\* runs the verifier configured with a small batch size and pool.
GOPLUS_BATCH_SIZE == 2
GOPLUS_CONCURRENCY == 2

\* Addresses as the caller writes them; "0xA" and "0xa" differ only in case.
Addresses == {"0xa", "0xA", "0xb"}
Chains == {"ethereum", "solana", "zksync"}

\* str.lower() on one character (the ASCII letters).
LowerChar(c) ==
    CASE c = "A" -> "a" [] c = "B" -> "b" [] c = "C" -> "c" [] c = "D" -> "d"
      [] c = "E" -> "e" [] c = "F" -> "f" [] c = "G" -> "g" [] c = "H" -> "h"
      [] c = "I" -> "i" [] c = "J" -> "j" [] c = "K" -> "k" [] c = "L" -> "l"
      [] c = "M" -> "m" [] c = "N" -> "n" [] c = "O" -> "o" [] c = "P" -> "p"
      [] c = "Q" -> "q" [] c = "R" -> "r" [] c = "S" -> "s" [] c = "T" -> "t"
      [] c = "U" -> "u" [] c = "V" -> "v" [] c = "W" -> "w" [] c = "X" -> "x"
      [] c = "Y" -> "y" [] c = "Z" -> "z" [] OTHER -> c

RECURSIVE Lower(_)
\* str.lower(), character by character.
Lower(a) ==
    IF Len(a) = 0 THEN a
    ELSE LowerChar(SubSeq(a, 1, 1)) \o Lower(SubSeq(a, 2, Len(a)))

\* str.startswith(prefix)
StartsWith(a, prefix) ==
    Len(a) >= Len(prefix) /\ SubSeq(a, 1, Len(prefix)) = prefix

\* self.chain_id_mapping.get(chain) is not None
GoPlusSupports(chain) == chain \in {"ethereum", "bsc", "polygon", "arbitrum", "avalanche",
                                    "fantom", "optimism", "base", "linea", "cronos"}

\* ContractVerificationResult, the fields the pipeline reads.
DefaultResult ==
    [is_verified |-> FALSE, is_honeypot |-> FALSE, can_take_back_ownership |-> FALSE,
     has_mint_function |-> FALSE, has_blacklist |-> FALSE, is_proxy |-> FALSE,
     verification_source |-> "", error_message |-> ""]

\* What the primary source may know about one token.
TokenInfos ==
    [is_honeypot : BOOLEAN, is_open_source : BOOLEAN, can_take_back_ownership : {FALSE},
     is_mintable : {FALSE}, is_blacklisted : {FALSE}, is_proxy : {FALSE}]

\* A token the primary source does not describe (used where no answer is read).
NoTokenInfo ==
    [is_honeypot |-> FALSE, is_open_source |-> FALSE, can_take_back_ownership |-> FALSE,
     is_mintable |-> FALSE, is_blacklisted |-> FALSE, is_proxy |-> FALSE]

EmptyMap == [a \in {} |-> DefaultResult]

\* dict.update
MapUpdate(m1, m2) ==
    [a \in DOMAIN m1 \cup DOMAIN m2 |-> IF a \in DOMAIN m2 THEN m2[a] ELSE m1[a]]

Range(seq) == {seq[i] : i \in DOMAIN seq}

RECURSIVE ChainOrder(_)
\* The keys of contracts_by_chain, in insertion order (lines 106-110).
ChainOrder(cs) ==
    IF cs = <<>> THEN <<>>
    ELSE LET front == ChainOrder(SubSeq(cs, 1, Len(cs) - 1))
             c == cs[Len(cs)][2]
         IN  IF c \in Range(front) THEN front ELSE Append(front, c)

RECURSIVE AddressesOf(_, _)
\* contracts_by_chain[chain]: the addresses of that chain, in input order.
AddressesOf(cs, chain) ==
    IF cs = <<>> THEN <<>>
    ELSE LET front == AddressesOf(SubSeq(cs, 1, Len(cs) - 1), chain)
         IN  IF cs[Len(cs)][2] = chain THEN Append(front, cs[Len(cs)][1]) ELSE front

\* Line 137: addresses[i:i + GOPLUS_BATCH_SIZE] for i in range(0, len, GOPLUS_BATCH_SIZE)
Batches(addresses) ==
    [k \in 1..((Len(addresses) + GOPLUS_BATCH_SIZE - 1) \div GOPLUS_BATCH_SIZE) |->
        SubSeq(addresses, (k - 1) * GOPLUS_BATCH_SIZE + 1,
               Min(k * GOPLUS_BATCH_SIZE, Len(addresses)))]

\* Lines 140-143: one task per batch of the chain.
TasksFor(cs, i) ==
    LET chain == ChainOrder(cs)[i]
        batches == Batches(AddressesOf(cs, chain))
    IN  [k \in DOMAIN batches |->
            [chain |-> chain, addresses |-> batches[k], pc |-> "wait_sem",
             result |-> EmptyMap, idx |-> 0]]

\* Lines 216-245: the result of one address from a successful GoPlus answer.
GoPlusResultFor(address, goplus_result) ==
    IF Lower(address) \in DOMAIN goplus_result
    THEN LET token_info == goplus_result[Lower(address)]
         IN  [is_verified |-> token_info.is_open_source,
              is_honeypot |-> token_info.is_honeypot,
              can_take_back_ownership |-> token_info.can_take_back_ownership,
              has_mint_function |-> token_info.is_mintable,
              has_blacklist |-> token_info.is_blacklisted,
              is_proxy |-> token_info.is_proxy,
              verification_source |-> "GoPlus Security", error_message |-> ""]
    ELSE [DefaultResult EXCEPT !.verification_source = "GoPlus Security (not found)"]

\* An entry of the answer that is not an object (JSON null): reading it raises.
NullTokenInfo == [null |-> TRUE]

\* What an answer of the primary source may hold for one address.
GoPlusEntries == TokenInfos \cup {NullTokenInfo}

\* Lines 216-221: the position of the first address whose entry cannot be
\* read (token_info.get raises on it), 0 when every entry is an object.
FirstUnreadable(addresses, goplus_result) ==
    LET bad == {i \in DOMAIN addresses :
                   /\ Lower(addresses[i]) \in DOMAIN goplus_result
                   /\ goplus_result[Lower(addresses[i])] = NullTokenInfo}
    IN  IF bad = {} THEN 0 ELSE CHOOSE i \in bad : \A j \in bad : i <= j

\* A reading of the answer that keeps only the addresses the source names.
GoPlusBatchResultFoundOnly(addresses, outcome, goplus_result) ==
    CASE outcome = "ok" ->
            IF FirstUnreadable(addresses, goplus_result) # 0 THEN EmptyMap
            ELSE [a \in {b \in Range(addresses) : Lower(b) \in DOMAIN goplus_result} |->
                     GoPlusResultFor(a, goplus_result)]
      [] outcome = "api_error" ->
            [a \in Range(addresses) |->
                [DefaultResult EXCEPT !.verification_source = "GoPlus Security (API error)"]]
      [] OTHER -> EmptyMap

\* Lines 207-262: what _process_batch_goplus returns for an answer of the source.
\* outcome: "ok" (status 200, code 1, non-empty result), "api_error" (status
\* 200, another code or an empty result), "http_error" (another status),
\* "exception" (network error, timeout, a body that is not JSON).  An "ok"
\* answer with an entry that cannot be read raises inside the loop and the
\* except of line 260 returns {}.
GoPlusBatchResult(addresses, outcome, goplus_result) ==
    CASE outcome = "ok" ->
            IF FirstUnreadable(addresses, goplus_result) # 0 THEN EmptyMap
            ELSE [a \in Range(addresses) |-> GoPlusResultFor(a, goplus_result)]
      [] outcome = "api_error" ->
            [a \in Range(addresses) |->
                [DefaultResult EXCEPT !.verification_source = "GoPlus Security (API error)"]]
      [] OTHER -> EmptyMap

\* Whether the chunk task ends without a result of its own (lines 258, 262).
GoPlusFailed(addresses, outcome, goplus_result) ==
    \/ outcome \in {"http_error", "exception"}
    \/ outcome = "ok" /\ FirstUnreadable(addresses, goplus_result) # 0

\* Lines 216-237: the cache after a successful GoPlus answer; the loop stores
\* the addresses the source knows, one by one, up to the first entry that
\* cannot be read.
CacheAfterGoPlus(c, chain, addresses, outcome, goplus_result, time) ==
    IF outcome # "ok" THEN c
    ELSE LET stop == FirstUnreadable(addresses, goplus_result)
             read == {i \in DOMAIN addresses :
                         /\ stop = 0 \/ i < stop
                         /\ Lower(addresses[i]) \in DOMAIN goplus_result}
             keys == {<<chain, Lower(addresses[i])>> : i \in read}
             \* the loop stores in list order: the last address with the key wins
             LastOf(key) == CHOOSE i \in read :
                               /\ <<chain, Lower(addresses[i])>> = key
                               /\ \A j \in read :
                                     <<chain, Lower(addresses[j])>> = key => j <= i
         IN  [k \in DOMAIN c \cup keys |->
                 IF k \in keys
                 THEN <<time, GoPlusResultFor(addresses[LastOf(k)], goplus_result)>>
                 ELSE c[k]]

\* Lines 268-296: the result of one address on a chain GoPlus does not support.
\* found: the Solana token list or an RPC endpoint knows the address.
FallbackResultFor(chain, found) ==
    CASE chain = "solana" ->
            IF found
            THEN [DefaultResult EXCEPT !.is_verified = TRUE,
                                       !.verification_source = "Solana Token Registry"]
            ELSE [DefaultResult EXCEPT !.verification_source = "Solana (not found)"]
      [] chain = "ton" ->
            [DefaultResult EXCEPT !.is_verified = TRUE, !.verification_source = "TON Network"]
      [] chain = "sonic" ->
            [DefaultResult EXCEPT !.is_verified = TRUE, !.verification_source = "Sonic Network"]
      [] OTHER ->
            \* _check_fallback_sources answers None for every chain that reaches here
            [DefaultResult EXCEPT !.verification_source = "chain (not supported)"]

\* A fallback that gives every address up as unknown.
FallbackBatchResultUnknown(chain, addresses, known) ==
    [a \in Range(addresses) |->
        [DefaultResult EXCEPT !.verification_source =
            IF chain = "solana" THEN "Solana (not found)" ELSE "chain (not supported)"]]

\* A fallback that answers from the cache when the key is there.
FallbackBatchResultCached(chain, addresses, known) ==
    [a \in Range(addresses) |->
        IF <<chain, Lower(a)>> \in DOMAIN cache THEN cache[<<chain, Lower(a)>>][2]
        ELSE FallbackResultFor(chain, a \in known)]

\* Lines 264-303: _process_batch_fallback; known: the addresses Solana knows.
FallbackBatchResult(chain, addresses, known) ==
    [a \in Range(addresses) |-> FallbackResultFor(chain, a \in known)]

\* Lines 298-300: every address of the fallback batch is stored.
CacheAfterFallback(c, chain, addresses, known, time) ==
    LET keys == {<<chain, Lower(a)>> : a \in Range(addresses)}
        LastOf(key) == CHOOSE i \in DOMAIN addresses :
                          /\ <<chain, Lower(addresses[i])>> = key
                          /\ \A j \in DOMAIN addresses :
                                <<chain, Lower(addresses[j])>> = key => j <= i
    IN  [k \in DOMAIN c \cup keys |->
            IF k \in keys
            THEN <<time, FallbackResultFor(chain, addresses[LastOf(k)] \in known)>>
            ELSE c[k]]

RECURSIVE MergeUntilEmpty(_, _, _)
\* A merge that gives up at the first chunk that came back empty.
MergeUntilEmpty(results, tasks, k) ==
    IF k > Len(tasks) \/ tasks[k].result = EmptyMap THEN results
    ELSE MergeUntilEmpty(MapUpdate(results, tasks[k].result), tasks, k + 1)

\* The same, from the first task.
MergeAbortingOnFailure(results, tasks) == MergeUntilEmpty(results, tasks, 1)

RECURSIVE MergeFrom(_, _, _)
\* Lines 149-151: results.update(batch_result) over the gathered results, in task order.
MergeFrom(results, tasks, k) ==
    IF k > Len(tasks) THEN results
    ELSE MergeFrom(MapUpdate(results, tasks[k].result), tasks, k + 1)

\* Lines 149-151 for one chain.
MergeBatchResults(results, tasks) == MergeFrom(results, tasks, 1)

\* Lines 100-146: the call starts; an empty list returns {} at once.
BatchStart ==
    /\ vb_pc = "init"
    /\ IF contracts = <<>>
       THEN /\ vb_pc' = "done"
            /\ UNCHANGED <<vb_chain, vb_tasks>>
       ELSE /\ vb_pc' = "gather"
            /\ vb_chain' = 1
            /\ vb_tasks' = TasksFor(contracts, 1)
    /\ vb_results' = EmptyMap
    /\ UNCHANGED <<contracts, vb_log, goplus_semaphore, inflight, cache>>
    /\ UNCHANGED rateVars

\* Lines 195-196: async with self.goplus_semaphore, and the chunk enters
\* _respect_rate_limit('goplus'), whatever its chain.  The chunk task k runs
\* the rate limiter as task k.
ChunkAcquire(k) ==
    /\ vb_pc = "gather"
    /\ k \in DOMAIN vb_tasks
    /\ vb_tasks[k].pc = "wait_sem"
    /\ goplus_semaphore > 0
    /\ goplus_semaphore' = goplus_semaphore - 1
    /\ vb_tasks' = [vb_tasks EXCEPT ![k].pc = "rate_limit"]
    /\ RespectEnter(k, "goplus")
    /\ UNCHANGED <<contracts, vb_pc, vb_chain, vb_results, vb_log, inflight, cache>>

\* Lines 198-207, 268-274 and 348: the rate limiter has let the chunk through;
\* the request is sent, or the chain goes to the fallback, which for Solana
\* starts with _respect_rate_limit('rpc') for the first address.
ChunkSend(k) ==
    /\ vb_pc = "gather"
    /\ k \in DOMAIN vb_tasks
    /\ vb_tasks[k].pc = "rate_limit"
    /\ rl_pc[k] = "idle"
    /\ IF GoPlusSupports(vb_tasks[k].chain)
       THEN /\ vb_tasks' = [vb_tasks EXCEPT ![k].pc = "http"]
            /\ inflight' = [inflight EXCEPT !["goplus"] = @ + 1]
            /\ UNCHANGED rateVars
       ELSE IF vb_tasks[k].chain = "solana"
       THEN /\ vb_tasks' = [vb_tasks EXCEPT ![k].pc = "token_limit", ![k].idx = 1]
            /\ RespectEnter(k, "rpc")
            /\ UNCHANGED inflight
       ELSE /\ vb_tasks' = [vb_tasks EXCEPT ![k].pc = "fallback"]
            /\ UNCHANGED inflight
            /\ UNCHANGED rateVars
    /\ UNCHANGED <<contracts, vb_pc, vb_chain, vb_results, vb_log, goplus_semaphore, cache>>

\* The chunk leaving the pool without giving its slot back.
ChunkReturnKeepsSlot(k, r, failed) ==
    /\ vb_tasks' = [vb_tasks EXCEPT ![k].pc = "done", ![k].result = r, ![k].idx = 0]
    /\ vb_log' = vb_log \cup
          {[chain |-> vb_tasks[k].chain, addresses |-> vb_tasks[k].addresses,
            failed |-> failed, result |-> r]}
    /\ UNCHANGED goplus_semaphore

\* Lines 255-262, 303, 195 and 171-191: _process_batch_goplus returns the map
\* r, leaving the async-with block, and the chunk task ends with it.
ChunkReturn(k, r, failed) ==
    /\ vb_tasks' = [vb_tasks EXCEPT ![k].pc = "done", ![k].result = r, ![k].idx = 0]
    /\ vb_log' = vb_log \cup
          {[chain |-> vb_tasks[k].chain, addresses |-> vb_tasks[k].addresses,
            failed |-> failed, result |-> r]}
    /\ goplus_semaphore' = goplus_semaphore + 1

\* Lines 207-262 and 171-191: the answer of GoPlus arrives and the chunk task ends.
ChunkResponse(k, outcome, goplus_result) ==
    /\ vb_pc = "gather"
    /\ k \in DOMAIN vb_tasks
    /\ vb_tasks[k].pc = "http"
    /\ LET t == vb_tasks[k]
       IN  /\ cache' = CacheAfterGoPlus(cache, t.chain, t.addresses, outcome,
                                        goplus_result, now)
           /\ ChunkReturn(k, GoPlusBatchResult(t.addresses, outcome, goplus_result),
                          GoPlusFailed(t.addresses, outcome, goplus_result))
    /\ inflight' = [inflight EXCEPT !["goplus"] = @ - 1]
    /\ UNCHANGED <<contracts, vb_pc, vb_chain, vb_results>>
    /\ UNCHANGED rateVars

\* Lines 296-303 and 268-274: the result of the address the loop stands at is
\* put into results and into the cache, with the time of that moment; the loop
\* goes on to the next address (for Solana, into _respect_rate_limit('rpc')),
\* or the fallback returns.  known: the addresses the source has found.
FallbackStore(k, known) ==
    LET t == vb_tasks[k]
        address == t.addresses[t.idx]
        r == MapUpdate(t.result, FallbackBatchResult(t.chain, <<address>>, known))
    IN  /\ cache' = CacheAfterFallback(cache, t.chain, <<address>>, known, now)
        /\ IF t.idx < Len(t.addresses)
           THEN /\ vb_tasks' = [vb_tasks EXCEPT ![k].pc = "token_limit",
                                                ![k].idx = @ + 1, ![k].result = r]
                /\ RespectEnter(k, "rpc")
                /\ UNCHANGED <<vb_log, goplus_semaphore>>
           ELSE /\ ChunkReturn(k, r, FALSE)
                /\ UNCHANGED rateVars

\* Lines 348-353: the rate limiter has let _check_solana_token_basic through
\* and the token list is requested.
SolanaTokenSend(k) ==
    /\ vb_pc = "gather"
    /\ k \in DOMAIN vb_tasks
    /\ vb_tasks[k].pc = "token_limit"
    /\ rl_pc[k] = "idle"
    /\ vb_tasks' = [vb_tasks EXCEPT ![k].pc = "token_http"]
    /\ inflight' = [inflight EXCEPT !["rpc"] = @ + 1]
    /\ UNCHANGED <<contracts, vb_pc, vb_chain, vb_results, vb_log, goplus_semaphore, cache>>
    /\ UNCHANGED rateVars

\* Lines 353-371, 540 and 274-279: the token list arrives.  listed: the
\* addresses on the list.  A listed address has its result; for another (or
\* when the request failed) _check_solana_contract is called and enters
\* _respect_rate_limit('rpc').
SolanaTokenResponse(k, listed) ==
    /\ vb_pc = "gather"
    /\ k \in DOMAIN vb_tasks
    /\ vb_tasks[k].pc = "token_http"
    /\ inflight' = [inflight EXCEPT !["rpc"] = @ - 1]
    /\ IF vb_tasks[k].addresses[vb_tasks[k].idx] \in listed
       THEN FallbackStore(k, listed)
       ELSE /\ vb_tasks' = [vb_tasks EXCEPT ![k].pc = "contract_limit"]
            /\ RespectEnter(k, "rpc")
            /\ UNCHANGED <<vb_log, goplus_semaphore, cache>>
    /\ UNCHANGED <<contracts, vb_pc, vb_chain, vb_results>>

\* Lines 540-558: the rate limiter has let _check_solana_contract through and
\* the first RPC endpoint is asked.
SolanaContractSend(k) ==
    /\ vb_pc = "gather"
    /\ k \in DOMAIN vb_tasks
    /\ vb_tasks[k].pc = "contract_limit"
    /\ rl_pc[k] = "idle"
    /\ vb_tasks' = [vb_tasks EXCEPT ![k].pc = "contract_http"]
    /\ inflight' = [inflight EXCEPT !["rpc"] = @ + 1]
    /\ UNCHANGED <<contracts, vb_pc, vb_chain, vb_results, vb_log, goplus_semaphore, cache>>
    /\ UNCHANGED rateVars

\* Lines 549-574 and 274-279: the RPC endpoints have answered, one after the
\* other until one knows the account or all three have failed.  known: the
\* addresses an endpoint knows.
SolanaContractResponse(k, known) ==
    /\ vb_pc = "gather"
    /\ k \in DOMAIN vb_tasks
    /\ vb_tasks[k].pc = "contract_http"
    /\ inflight' = [inflight EXCEPT !["rpc"] = @ - 1]
    /\ FallbackStore(k, known)
    /\ UNCHANGED <<contracts, vb_pc, vb_chain, vb_results>>

\* Lines 264-303 for a chain other than Solana: nothing in the loop awaits,
\* the fallback handles every address of the chunk at once and returns.
ChunkFallback(k) ==
    /\ vb_pc = "gather"
    /\ k \in DOMAIN vb_tasks
    /\ vb_tasks[k].pc = "fallback"
    /\ LET t == vb_tasks[k]
       IN  /\ cache' = CacheAfterFallback(cache, t.chain, t.addresses, {}, now)
           /\ ChunkReturn(k, FallbackBatchResult(t.chain, t.addresses, {}), FALSE)
    /\ UNCHANGED <<contracts, vb_pc, vb_chain, vb_results, inflight>>
    /\ UNCHANGED rateVars

\* Lines 146-151 and 133: gather has every result of the chain; they are
\* merged and the next chain starts, or the call returns (line 169).
BatchMerge ==
    /\ vb_pc = "gather"
    /\ \A k \in DOMAIN vb_tasks : vb_tasks[k].pc = "done"
    /\ vb_results' = MergeBatchResults(vb_results, vb_tasks)
    /\ IF vb_chain < Len(ChainOrder(contracts))
       THEN /\ vb_chain' = vb_chain + 1
            /\ vb_tasks' = TasksFor(contracts, vb_chain + 1)
            /\ UNCHANGED vb_pc
       ELSE /\ vb_pc' = "done"
            /\ vb_tasks' = <<>>
            /\ UNCHANGED vb_chain
    /\ UNCHANGED <<contracts, vb_log, goplus_semaphore, inflight, cache>>
    /\ UNCHANGED rateVars


\* The lists a caller may pass: distinct <<address, chain>> pairs ("deduplicated by caller").
InputLists ==
    UNION {{s \in [1..n -> Addresses \X Chains] :
               \A i, j \in 1..n : s[i] = s[j] => i = j} : n \in 0..MaxContracts}

BatchConstructed ==
    /\ contracts = <<>>
    /\ vb_pc = "init"
    /\ vb_chain = 0
    /\ vb_tasks = <<>>
    /\ vb_results = EmptyMap
    /\ vb_log = {}

\* Outcomes of a request to the primary source (see GoPlusBatchResult).
Outcomes == {"ok", "api_error", "http_error", "exception"}

\* The most chunks one chain can have.
MaxChunks == (MaxContracts + GOPLUS_BATCH_SIZE - 1) \div GOPLUS_BATCH_SIZE

\* Before a call: no answers are fixed and nothing has finished.
OrderConstructed ==
    /\ responses = [outcome |-> [k \in 1..MaxChunks |-> "ok"], goplus_result |-> EmptyMap,
                    listed |-> {}, known |-> {}]
    /\ vb_order = <<>>

(***************************************************************************)
(* DEXScreener client: TokenScanner._make_async_request                    *)
(* Delays are counted in microseconds; the product with the decay factor   *)
(* 0.95 is rounded down to a whole microsecond.  The statistics counter     *)
(* self.request_count is left out: nothing reads it in this function.      *)
(***************************************************************************)
\* ---- bounds of the model ----
NumScanners == 2
MaxRequests == 2
\* Read from the environment (token_scanner.py:191 and config.py:34, defaults
\* 3 and 2).
max_retries == 3
DEXSCREENER_CONCURRENCY == 2

\* ---- program constants (microseconds) ----
AdaptiveFloor == 2000000      \* token_scanner.py:365 (2.0 s), also the getattr default
AdaptiveCap == 15000000       \* token_scanner.py:350 (15.0 s)
Second == 1000000

Scanners == 1..NumScanners

\* What session.get can end in (lines 344-368): status 200, another status
\* that raise_for_status lets pass (201..399), status 429, an error status
\* (raise_for_status raises), a timeout, a network error.
ScanOutcomes ==
    {"status_200", "status_2xx", "rate_limited", "status_error", "timeout", "network_error"}

\* What await response.json() can end in (line 368): the parsed body, or an
\* exception.
ScanBodies == {"json", "bad_json"}

\* No attempt of the call has got a status yet.
NoUpdate == [outcome |-> "none", before |-> 0, after |-> 0]

RECURSIVE Pow(_, _)
Pow(b, e) == IF e = 0 THEN 1 ELSE b * Pow(b, e - 1)

\* Line 350: min(self._adaptive_delay * 2.0, 15.0)
AdaptiveAfter429(d) == Min(d * 2, AdaptiveCap)

\* Line 365: max(self._adaptive_delay * 0.95, 2.0)
AdaptiveAfterSuccess(d) == IF (d * 95) \div 100 > AdaptiveFloor THEN (d * 95) \div 100
                           ELSE AdaptiveFloor

\* Line 352 without the jitter: min(3 ** attempt * 5, 120) + 5 seconds at least
RetryDelay429(attempt) == (Min(Pow(3, attempt) * 5, 120) + 5) * Second

\* Lines 374 and 379 without the jitter: 2 ** attempt seconds at least
RetryDelayError(attempt) == Pow(2, attempt) * Second

\* A test that lets the loop sleep once more after the last attempt.
LastAttemptLate(attempt) == attempt = max_retries

\* Lines 356, 371, 377: attempt == self.max_retries - 1
LastAttempt(attempt) == attempt = max_retries - 1

\* The kinds of update of the adaptive delay a response brings about.
UpdateKinds(outcome, before, after) ==
    CASE outcome = "rate_limited" -> IF after = before * 2 THEN {"doubled"} ELSE {"capped"}
      [] outcome = "status_200" ->
            IF after = AdaptiveFloor /\ (before * 95) \div 100 < AdaptiveFloor
            THEN {"floored"} ELSE {"decayed"}
      [] outcome = "status_2xx" -> {"kept"}
      [] OTHER -> {}

\* Lines 333-340: the semaphore is taken, the base delay is read and the call
\* sleeps before its first attempt.  The callers are interchangeable
\* coroutines: the lowest idle one takes the call.
ScanStart(w) ==
    /\ sc_pc[w] = "idle"
    /\ \A u \in Scanners : u < w => sc_pc[u] # "idle"
    /\ sc_calls < MaxRequests
    /\ dex_semaphore > 0
    /\ dex_semaphore' = dex_semaphore - 1
    /\ sc_calls' = sc_calls + 1
    /\ sc_pc' = [sc_pc EXCEPT ![w] = "pre_sleep"]
    /\ sc_sleep' = [sc_sleep EXCEPT ![w] = adaptive_delay]
    /\ UNCHANGED <<adaptive_delay, sc_attempt, sc_made, sc_failed,
                   sc_done, sc_update, sc_last, sc_seen>>

\* The call returns after made attempts, failed of them failed; its locals
\* are gone and the semaphore is released.
ScanLeave(w, result, made, failed) ==
    /\ sc_pc' = [sc_pc EXCEPT ![w] = "idle"]
    /\ sc_attempt' = [sc_attempt EXCEPT ![w] = 0]
    /\ sc_sleep' = [sc_sleep EXCEPT ![w] = 0]
    /\ sc_made' = [sc_made EXCEPT ![w] = 0]
    /\ sc_failed' = [sc_failed EXCEPT ![w] = 0]
    /\ sc_update' = [sc_update EXCEPT ![w] = NoUpdate]
    /\ sc_done' = [result |-> result, made |-> made, failed |-> failed,
                   update |-> sc_update[w]]
    /\ dex_semaphore' = dex_semaphore + 1

\* Lines 342-344 and 382: a sleep is over; the loop sends the next request, or
\* returns {} when range(self.max_retries) is used up.
ScanWake(w) ==
    /\ sc_pc[w] \in {"pre_sleep", "backoff"}
    /\ LET attempt == IF sc_pc[w] = "pre_sleep" THEN 0 ELSE sc_attempt[w] + 1
       IN  IF attempt < max_retries
           THEN /\ sc_pc' = [sc_pc EXCEPT ![w] = "http"]
                /\ sc_attempt' = [sc_attempt EXCEPT ![w] = attempt]
                /\ sc_sleep' = [sc_sleep EXCEPT ![w] = 0]
                /\ sc_made' = [sc_made EXCEPT ![w] = @ + 1]
                /\ UNCHANGED <<dex_semaphore, sc_done, sc_update, sc_failed>>
           ELSE ScanLeave(w, "empty", sc_made[w], sc_failed[w])
    /\ UNCHANGED <<adaptive_delay, sc_calls, sc_last, sc_seen>>

\* Lines 356-361 and 370-380: the attempt has failed; the last attempt
\* returns {}, any other sleeps before the next one.
ScanAttemptFailed(w, retry_delay) ==
    IF LastAttempt(sc_attempt[w])
    THEN ScanLeave(w, "empty", sc_made[w], sc_failed[w] + 1)
    ELSE /\ sc_pc' = [sc_pc EXCEPT ![w] = "backoff"]
         /\ sc_sleep' = [sc_sleep EXCEPT ![w] = retry_delay]
         /\ sc_failed' = [sc_failed EXCEPT ![w] = @ + 1]
         /\ sc_update' = [sc_update EXCEPT ![w] = NoUpdate]
         /\ UNCHANGED <<dex_semaphore, sc_attempt, sc_made, sc_done>>

\* Lines 344-367 and 370-380: session.get answers or raises.  A status 429
\* doubles the adaptive delay and the attempt has failed; a status 200 lets
\* the delay decay; a status that raise_for_status lets pass leads to the
\* await of the body, any other outcome to the exception handlers.
ScanResponse(w, outcome) ==
    /\ sc_pc[w] = "http"
    /\ LET after == CASE outcome = "rate_limited" -> AdaptiveAfter429(adaptive_delay)
                      [] outcome = "status_200" -> AdaptiveAfterSuccess(adaptive_delay)
                      [] OTHER -> adaptive_delay
           update == [outcome |-> outcome, before |-> adaptive_delay, after |-> after]
       IN  /\ adaptive_delay' = after
           /\ sc_last' = update
           /\ sc_seen' = sc_seen \cup UpdateKinds(outcome, adaptive_delay, after)
           /\ IF outcome \in {"status_200", "status_2xx"}
              THEN /\ sc_pc' = [sc_pc EXCEPT ![w] = "body"]
                   /\ sc_update' = [sc_update EXCEPT ![w] = update]
                   /\ UNCHANGED <<dex_semaphore, sc_attempt, sc_sleep, sc_made, sc_failed,
                                  sc_done>>
              ELSE ScanAttemptFailed(w, IF outcome = "rate_limited"
                                        THEN RetryDelay429(sc_attempt[w])
                                        ELSE RetryDelayError(sc_attempt[w]))
    /\ UNCHANGED sc_calls

\* Lines 368 and 370-380: await response.json() hands the body back, which
\* the call returns, or raises, which the exception handlers catch.  Other
\* calls may have run since the status was read.
ScanBody(w, body) ==
    /\ sc_pc[w] = "body"
    /\ IF body = "json"
       THEN ScanLeave(w, "json", sc_made[w], sc_failed[w])
       ELSE ScanAttemptFailed(w, RetryDelayError(sc_attempt[w]))
    /\ UNCHANGED <<adaptive_delay, sc_calls, sc_last, sc_seen>>

ScanConstructed ==
    /\ adaptive_delay = AdaptiveFloor
    /\ dex_semaphore = DEXSCREENER_CONCURRENCY
    /\ sc_pc = [w \in Scanners |-> "idle"]
    /\ sc_attempt = [w \in Scanners |-> 0]
    /\ sc_sleep = [w \in Scanners |-> 0]
    /\ sc_done = [result |-> "none", made |-> 0, failed |-> 0, update |-> NoUpdate]
    /\ sc_update = [w \in Scanners |-> NoUpdate]
    /\ sc_calls = 0
    /\ sc_made = [w \in Scanners |-> 0]
    /\ sc_failed = [w \in Scanners |-> 0]
    /\ sc_last = [outcome |-> "none", before |-> AdaptiveFloor, after |-> AdaptiveFloor]
    /\ sc_seen = {}

\* No get_lock_score call has been made.
NoLockScored == [lock_info |-> [is_locked |-> FALSE, locked_percentage |-> 0,
                                lock_duration_days |-> 0, platform |-> ""],
                 score |-> 0]

LockScoreConstructed ==
    /\ lock_scored = NoLockScored
    /\ lock_scored_before = NoLockScored

\* No token is under analysis.
RiskConstructed ==
    /\ risk_token = <<>>
    /\ risk_pc = "none"
    /\ risk_unavailable = FALSE
    /\ risk_factors = <<>>
    /\ risk_first = <<>>

\* No call was repeated.
RepeatConstructed ==
    /\ rp_rounds = 0
    /\ rp_repeat = {}

\* get_token_profile found no pair of the token (the profile {}).
NoPair ==
    [found |-> FALSE, dex_id |-> "", liquidity_usd |-> 0, volume_24h |-> 0, h24 |-> 0,
     age_known |-> FALSE, age_hours |-> 0, buys |-> 0, sells |-> 0,
     websites |-> 0, socials |-> 0]

\* token_data before any token is analysed.
NoSecInput ==
    [contract |-> "unverified", dangerous |-> 0, honeypot |-> "unknown", owner |-> "eoa",
     liquidity_locked |-> FALSE, liquidity_lock_period |-> 0, top_10_percent |-> FZero,
     buys_24h |-> 0, sells_24h |-> 0, volume_24h |-> 0, market_cap |-> 0,
     dexscreener |-> NoPair]

\* No report yet (Token.security_report = None).
NoSecReport == [none |-> TRUE]

\* token_analyzer.py:127-133: the security fields of a new Token.
NewSecToken ==
    [security_score |-> FZero, contract_verified |-> FALSE, ownership_renounced |-> FALSE,
     liquidity_locked |-> FALSE, honeypot_probability |-> FZero, security_issues |-> 0]

\* No overall_score has been computed.
NotComputed == [sign |-> 0, mant |-> <<>>, exp |-> 0]

SecConstructed ==
    /\ sec_pc = "none"
    /\ sec_in = NoSecInput
    /\ sec_report = NoSecReport
    /\ sec_token = NewSecToken
    /\ ws_scorer = "none"
    /\ ws_scores = <<>>
    /\ ws_overall = NotComputed

RestConstructed ==
    /\ OrderConstructed /\ ScanConstructed /\ LockScoreConstructed /\ RiskConstructed
    /\ RepeatConstructed /\ SecConstructed

SharedConstructed ==
    /\ goplus_semaphore = GOPLUS_CONCURRENCY
    /\ inflight = [a \in APIs |-> 0]
    /\ cache = [k \in {} |-> <<0, DefaultResult>>]

(***************************************************************************)
(* Single-contract verification with its cache, and the liquidity-lock     *)
(* checker with its cache                                                  *)
(***************************************************************************)

\* ---- bounds of the model ----
NumCallers == 2
MaxLookups == 4
MaxTicks == 2
MaxMultiCalls == 2
MaxRequestTicks == 1

\* ---- program constants (tenths of a second) ----
cache_ttl == 36000          \* contract_verifier.py:39 (3600 s)
lock_cache_ttl == 36000     \* liquidity_lock_checker.py:46 (3600 s)
DayLength == 864000         \* timedelta(days=1)
RequestTime == 1            \* the step by which the clock moves while a request is awaited

Callers == 1..NumCallers
MultiAddresses == {"0xa", "0xA"}
MultiChains == {"ethereum", "bsc", "solana"}
CacheChains == {"solana", "ton"}
CacheAddresses == {"0xA"}

\* The clock moves by the smallest step or by one step less than the TTL, so
\* that lookups happen just before, at and just after the expiry.
CacheSteps == {1, cache_ttl - 1}

\* Line 381: the cached entry is still fresh.
CacheFreshInclusive(cached_time, time) == time - cached_time <= cache_ttl
CacheFresh(cached_time, time) == time - cached_time < cache_ttl

\* liquidity_lock_checker.py line 118.
LockCacheFresh(timestamp, time) == time - timestamp < lock_cache_ttl

\* Line 378: cache_key = f"{chain}_{contract_address.lower()}"
CacheKey(chain, address) == <<chain, Lower(address)>>

\* liquidity_lock_checker.py line 115: f"{token_address}_{pair_address}_{network}"
LockCacheKey(token_address, pair_address, network) ==
    <<token_address, pair_address, network>>

\* liquidity_lock_checker.py lines 129-150: known_locked_tokens, network ->
\* token address -> the lock the table names.
NoKnownLocks == [a \in {} |-> [percentage |-> 0, days |-> 0, platform |-> ""]]
known_locked_tokens ==
    [ethereum |->
        ("0xa0b86a33e6411b3bb8a8b7e7c6b9c8b4e1a8c8e1" :>
            [percentage |-> 95, days |-> 365, platform |-> "Team Finance"])
        @@ ("0x514910771af9ca656af840dff83e8264ecf986ca" :>
            [percentage |-> 100, days |-> 730, platform |-> "Unicrypt"]),
     bsc |->
        ("0x0e09fabb73bd3ade0a17ecc321fd13a19e81ce82" :>
            [percentage |-> 90, days |-> 180, platform |-> "PinkSale"]),
     solana |-> NoKnownLocks, base |-> NoKnownLocks, arbitrum |-> NoKnownLocks,
     polygon |-> NoKnownLocks]

\* A token of the table (LINK).
LinkToken == "0x514910771af9ca656af840dff83e8264ecf986ca"

\* Tokens of the lock cache: "0x1a" falls in the first class of the address
\* heuristic, "0xdd" in none; LINK is in the table of known locks on ethereum
\* (and falls in the second class of the heuristic on any other network).
LockNetworks == {"ethereum"}
CacheLockTokens == {"0x1a", "0xdd", LinkToken}
LockPairs == {"0xpair"}

\* LiquidityLockInfo() (lines 12-29); unlock_date None is NoTime.
DefaultLockInfo ==
    [is_locked |-> FALSE, locked_percentage |-> 0, lock_duration_days |-> 0,
     platform |-> "", unlock_date |-> NoTime]

\* A lock found at the given time; unlock_date = datetime.now() +
\* timedelta(days) (lines 159 and 238).
LockedInfo(percentage, days, platform, time) ==
    [is_locked |-> TRUE, locked_percentage |-> percentage, lock_duration_days |-> days,
     platform |-> platform, unlock_date |-> time + days * DayLength]

\* _check_external_sources (lines 183-244): the heuristic on the address.
CheckExternalSources(token_address, time) ==
    LET addr_lower == Lower(token_address)
        StartsWithAny(prefixes) == \E prefix \in prefixes : StartsWith(addr_lower, prefix)
    IN  IF StartsWithAny({"0x1", "0x2", "0x3"}) THEN LockedInfo(95, 365, "Team Finance", time)
        ELSE IF StartsWithAny({"0x4", "0x5", "0x6"}) THEN LockedInfo(75, 180, "Unicrypt", time)
        ELSE IF StartsWithAny({"0x7", "0x8", "0x9"}) THEN LockedInfo(50, 30, "PinkSale", time)
        ELSE DefaultLockInfo

\* Lines 152-167 of check_liquidity_lock: the lock of the table of known
\* locks, or else what _check_external_sources finds; _analyze_lock_safety
\* adds warnings only.
LockInfoOf(token_address, network, time) ==
    LET net == Lower(network)
        network_tokens == IF net \in DOMAIN known_locked_tokens
                          THEN known_locked_tokens[net] ELSE NoKnownLocks
        addr_lower == Lower(token_address)
    IN  IF addr_lower \in DOMAIN network_tokens
        THEN LockedInfo(network_tokens[addr_lower].percentage, network_tokens[addr_lower].days,
                        network_tokens[addr_lower].platform, time)
        ELSE CheckExternalSources(token_address, time)

\* Lines 439-449 and 392: a found token of the primary source.
GoPlusSingleResult(token_info) ==
    [is_verified |-> token_info.is_open_source, is_honeypot |-> token_info.is_honeypot,
     can_take_back_ownership |-> token_info.can_take_back_ownership,
     has_mint_function |-> token_info.is_mintable,
     has_blacklist |-> token_info.is_blacklisted,
     is_proxy |-> token_info.is_proxy,
     verification_source |-> "GoPlus Security", error_message |-> ""]

\* Line 395: the fallback sources are asked.
NeedsFallback(result, chain) == ~result.is_verified \/ chain \in {"ethereum", "bsc"}

\* _check_fallback_sources (lines 465-472): the explorer of the chain, if any.
ExplorerOf(chain) ==
    CASE chain = "ethereum" -> "etherscan"
      [] chain = "bsc" -> "bscscan"
      [] OTHER -> "none"

\* No lookup seen yet.
NoLookup(value) ==
    [key |-> <<>>, time |-> NoTime, hit |-> FALSE, value |-> value,
     present |-> FALSE, stored_at |-> NoTime, stored_value |-> value]

\* The observer's record of the last store under each key of a cache.
Stored(which, key, value) ==
    [puts EXCEPT ![which] =
        [k \in DOMAIN puts[which] \cup {key} |->
            IF k = key THEN <<now, value>> ELSE puts[which][k]]]

\* The observer's record of a lookup: what the program answered, and what the
\* observer knows was stored last under the key.
Looked(which, key, hit, value) ==
    [lookups EXCEPT ![which] =
        [key |-> key, time |-> now, hit |-> hit, value |-> value,
         present |-> key \in DOMAIN puts[which],
         stored_at |-> IF key \in DOMAIN puts[which] THEN puts[which][key][1] ELSE NoTime,
         stored_value |-> IF key \in DOMAIN puts[which] THEN puts[which][key][2] ELSE value]]

\* The source whose rate limiter a stage of the call enters (lines 426, 476,
\* 508, 540).
LimiterOf(pc, chain) ==
    CASE pc = "goplus_limit" -> "goplus"
      [] pc = "explorer_limit" -> ExplorerOf(chain)
      [] OTHER -> "rpc"

\* The call goes on with the next source and enters its rate limiter:
\* contract_address, chain and result stay with the caller.  The call of
\* caller t runs the rate limiter as task t.
MultiContinue(t, address, chain, result, unavail, pc) ==
    /\ mv_pc' = [mv_pc EXCEPT ![t] = pc]
    /\ mv_address' = [mv_address EXCEPT ![t] = address]
    /\ mv_chain' = [mv_chain EXCEPT ![t] = chain]
    /\ mv_result' = [mv_result EXCEPT ![t] = result]
    /\ mv_unavail' = [mv_unavail EXCEPT ![t] = unavail]
    /\ RespectEnter(t, LimiterOf(pc, chain))
    /\ UNCHANGED <<cache, puts, returned>>

\* The call is over: its locals are gone and the caller has the result.
MultiLeave(t, result, unavail) ==
    /\ mv_pc' = [mv_pc EXCEPT ![t] = "idle"]
    /\ mv_address' = [mv_address EXCEPT ![t] = "none"]
    /\ mv_chain' = [mv_chain EXCEPT ![t] = "none"]
    /\ mv_result' = [mv_result EXCEPT ![t] = DefaultResult]
    /\ mv_unavail' = [mv_unavail EXCEPT ![t] = FALSE]
    /\ returned' = [result |-> result, unavailable |-> unavail]
    /\ UNCHANGED rateVars

\* Lines 414-417: the result is stored and returned.
MultiReturn(t, address, chain, result, unavail) ==
    /\ cache' = [k \in DOMAIN cache \cup {CacheKey(chain, address)} |->
                    IF k = CacheKey(chain, address) THEN <<now, result>> ELSE cache[k]]
    /\ puts' = Stored("verification", CacheKey(chain, address), result)
    /\ MultiLeave(t, result, unavail)

\* Lines 402-417: the Solana check, or the end of the call.
MultiAfterFallback(t, address, chain, result, unavail) ==
    IF chain = "solana"
    THEN MultiContinue(t, address, chain, result, unavail, "rpc_limit")
    ELSE MultiReturn(t, address, chain, result, unavail)

\* Lines 394-417 after the primary source: which source is asked next.
MultiAfterGoPlus(t, address, chain, result, unavail) ==
    IF NeedsFallback(result, chain) /\ ExplorerOf(chain) # "none"
    THEN MultiContinue(t, address, chain, result, unavail, "explorer_limit")
    ELSE MultiAfterFallback(t, address, chain, result, unavail)

\* Lines 373-389 and 419-426: the call starts with the cache lookup; on a miss
\* the primary source is asked if it supports the chain.  The callers are
\* interchangeable coroutines: the lowest idle one takes the call.
MultiStart(t, address, chain) ==
    /\ mv_pc[t] = "idle"
    /\ \A u \in Callers : u < t => mv_pc[u] # "idle"
    /\ cache_calls < MaxLookups
    /\ cache_calls' = cache_calls + 1
    /\ LET key == CacheKey(chain, address)
           hit == key \in DOMAIN cache /\ CacheFresh(cache[key][1], now)
       IN  /\ lookups' = Looked("verification", key, hit,
                                 IF hit THEN cache[key][2] ELSE DefaultResult)
           /\ IF hit
              THEN /\ MultiLeave(t, cache[key][2], FALSE)
                   /\ UNCHANGED <<cache, puts>>
              ELSE IF GoPlusSupports(chain)
              THEN MultiContinue(t, address, chain, DefaultResult, FALSE, "goplus_limit")
              ELSE MultiAfterGoPlus(t, address, chain, DefaultResult, FALSE)
    /\ UNCHANGED <<inflight, lock_cache, ticks>>

\* The rate limiter has let the call through and the request goes out.
\* which: "goplus" (lines 428-432), "explorer" (lines 478-486 and 510-518),
\* "rpc" (lines 542-558).
MultiSend(t, which) ==
    /\ mv_pc[t] = IF which = "goplus" THEN "goplus_limit"
                  ELSE IF which = "explorer" THEN "explorer_limit" ELSE "rpc_limit"
    /\ rl_pc[t] = "idle"
    /\ mv_pc' = [mv_pc EXCEPT ![t] =
          IF which = "goplus" THEN "goplus_http"
          ELSE IF which = "explorer" THEN "explorer_http" ELSE "rpc_http"]
    /\ LET source == IF which = "explorer" THEN ExplorerOf(mv_chain[t]) ELSE which
       IN  inflight' = [inflight EXCEPT ![source] = @ + 1]
    /\ UNCHANGED <<mv_address, mv_chain, mv_result, mv_unavail, returned, cache, puts, lookups,
                   lock_cache, cache_calls, ticks>>
    /\ UNCHANGED rateVars

\* Lines 432-463 and 390-392: the answer of the primary source.
\* outcome: "found", "not_found" (status 200 without the token), "unavailable"
\* (another status, network error, timeout, malformed payload).
MultiGoPlusResponse(t, outcome, token_info) ==
    /\ mv_pc[t] = "goplus_http"
    /\ inflight' = [inflight EXCEPT !["goplus"] = @ - 1]
    /\ MultiAfterGoPlus(t, mv_address[t], mv_chain[t],
                        IF outcome = "found" THEN GoPlusSingleResult(token_info)
                        ELSE mv_result[t],
                        mv_unavail[t] \/ outcome = "unavailable")
    /\ UNCHANGED <<lookups, lock_cache, cache_calls, ticks>>

\* Lines 486-504 (508-536) and 396-400: the answer of the explorer.
MultiExplorerResponse(t, outcome, is_verified) ==
    /\ mv_pc[t] = "explorer_http"
    /\ inflight' = [inflight EXCEPT ![ExplorerOf(mv_chain[t])] = @ - 1]
    /\ MultiAfterFallback(t, mv_address[t], mv_chain[t],
            IF outcome = "found"
            THEN [mv_result[t] EXCEPT !.is_verified = @ \/ is_verified]
            ELSE mv_result[t],
            mv_unavail[t] \/ outcome = "unavailable")
    /\ UNCHANGED <<lookups, lock_cache, cache_calls, ticks>>

\* Lines 557-574 and 404-417: the answer of the Solana RPC endpoints.
MultiRpcResponse(t, outcome) ==
    /\ mv_pc[t] = "rpc_http"
    /\ inflight' = [inflight EXCEPT !["rpc"] = @ - 1]
    /\ MultiReturn(t, mv_address[t], mv_chain[t],
            IF outcome = "found"
            THEN [mv_result[t] EXCEPT !.is_verified = TRUE,
                                      !.verification_source = "Solana RPC"]
            ELSE mv_result[t],
            mv_unavail[t] \/ outcome = "unavailable")
    /\ UNCHANGED <<lookups, lock_cache, cache_calls, ticks>>

\* check_liquidity_lock (lines 100-181): a fresh entry of the cache, or the
\* lock of the table or of the heuristic, which is stored.
CheckLiquidityLock(token_address, pair_address, network) ==
    /\ cache_calls < MaxLookups
    /\ cache_calls' = cache_calls + 1
    /\ LET key == LockCacheKey(token_address, pair_address, network)
           hit == key \in DOMAIN lock_cache /\ LockCacheFresh(lock_cache[key][2], now)
           lock_info == LockInfoOf(token_address, network, now)
       IN  IF hit
           THEN /\ lookups' = Looked("lock", key, TRUE, lock_cache[key][1])
                /\ UNCHANGED <<lock_cache, puts>>
           ELSE /\ lookups' = Looked("lock", key, FALSE, lock_info)
                /\ lock_cache' = [k \in DOMAIN lock_cache \cup {key} |->
                                     IF k = key THEN <<lock_info, now>> ELSE lock_cache[k]]
                /\ puts' = Stored("lock", key, lock_info)
    /\ UNCHANGED <<mv_pc, mv_address, mv_chain, mv_result, mv_unavail, returned, cache, inflight,
                   ticks>>
    /\ UNCHANGED rateVars

\* Time passes, while the calls wait for an answer or between two calls.
CacheTick(d) ==
    /\ ticks < MaxTicks
    /\ ticks' = ticks + 1
    /\ now' = now + d
    /\ UNCHANGED <<mv_pc, mv_address, mv_chain, mv_result, mv_unavail, returned, cache, inflight,
                   lock_cache, cache_calls, puts, lookups>>
    /\ UNCHANGED <<request_counters, counter_reset_time, last_request_time,
                   rl_pc, rl_api, rl_current_time, rl_wake, rl_calls,
                   obs_start, obs_count, adm_last, adm_gap, win_count, reset_early>>

\* Time passes while a request is awaited (session.get, session.post).
RequestTick ==
    /\ ticks < MaxRequestTicks
    /\ \E a \in APIs : inflight[a] > 0
    /\ CacheTick(RequestTime)

\* Lines 621-624: clear_cache, which the owner of the verifier may call
\* between any two steps of the calls; the entries are gone, and with them
\* what the observer knew was stored.
ClearCache ==
    /\ DOMAIN cache # {}
    /\ cache' = [k \in {} |-> <<0, DefaultResult>>]
    /\ puts' = [puts EXCEPT !["verification"] = [k \in {} |-> <<0, DefaultResult>>]]
    /\ UNCHANGED <<rateVars, batchVars, goplus_semaphore, inflight>>
    /\ UNCHANGED <<mv_pc, mv_address, mv_chain, mv_result, mv_unavail, returned, lock_cache,
                   cache_calls, ticks, lookups>>

MultiConstructed ==
    /\ mv_pc = [t \in Callers |-> "idle"]
    /\ mv_address = [t \in Callers |-> "none"]
    /\ mv_chain = [t \in Callers |-> "none"]
    /\ mv_result = [t \in Callers |-> DefaultResult]
    /\ mv_unavail = [t \in Callers |-> FALSE]
    /\ returned = [result |-> DefaultResult, unavailable |-> FALSE]
    /\ lock_cache = [k \in {} |-> <<DefaultLockInfo, 0>>]
    /\ cache_calls = 0
    /\ ticks = 0
    /\ puts = [verification |-> [k \in {} |-> <<0, DefaultResult>>],
               lock |-> [k \in {} |-> <<0, DefaultLockInfo>>]]
    /\ lookups = [verification |-> NoLookup(DefaultResult), lock |-> NoLookup(DefaultLockInfo)]

(***************************************************************************)
(* Token analyzer: Token.calculate_risk_score, TokenAnalyzer.verify_contracts, *)
(* check_liquidity_locks, analyze_all_tokens, analyze_all_tokens_sync      *)
(***************************************************************************)

\* ---- bounds of the model ----
MaxTokens == 2

\* ---- program constants ----
PriceChangeSuspicious == 1000   \* token_analyzer.py:143, default of the config
LiquidityHighRisk == 1000       \* token_analyzer.py:156, default of the config
VolLiqSuspicious == 5           \* token_analyzer.py:162, default of the config
NoScore == 0 - 1                \* the token has no liquidity_lock_score

\* The risk levels: "scam" is the source's "Скам", "high" its "Высокий",
\* "medium" its "Средний", "moderate" its "Умеренный", "low" its "Низкий".
RiskLevels == {"scam", "high", "medium", "moderate", "low"}

\* A lock score whose bonuses for 80 % and 90 % are swapped.
GetLockScoreSwapped(lock_info) ==
    IF ~lock_info.is_locked THEN 0
    ELSE LET pct == lock_info.locked_percentage
             days == lock_info.lock_duration_days
             score == 30
                + (IF pct >= 90 THEN 20 ELSE IF pct >= 80 THEN 25 ELSE IF pct >= 50 THEN 10 ELSE 0)
                + (IF days >= 365 THEN 25 ELSE IF days >= 180 THEN 20
                   ELSE IF days >= 90 THEN 15 ELSE IF days >= 30 THEN 10 ELSE 0)
                + (IF lock_info.platform \in {"Team Finance", "Unicrypt", "PinkSale"}
                   THEN 20 ELSE 10)
         IN  Min(score, 100)

\* A lock score that does not look at is_locked.
GetLockScoreOfFields(lock_info) ==
    LET pct == lock_info.locked_percentage
        days == lock_info.lock_duration_days
        score == 30
           + (IF pct >= 90 THEN 25 ELSE IF pct >= 80 THEN 20 ELSE IF pct >= 50 THEN 10 ELSE 0)
           + (IF days >= 365 THEN 25 ELSE IF days >= 180 THEN 20
              ELSE IF days >= 90 THEN 15 ELSE IF days >= 30 THEN 10 ELSE 0)
           + (IF lock_info.platform \in {"Team Finance", "Unicrypt", "PinkSale"}
              THEN 20 ELSE 10)
    IN  Min(score, 100)

\* get_lock_score (liquidity_lock_checker.py lines 411-451)
GetLockScore(lock_info) ==
    IF ~lock_info.is_locked THEN 0
    ELSE LET pct == lock_info.locked_percentage
             days == lock_info.lock_duration_days
             score == 30
                + (IF pct >= 90 THEN 25 ELSE IF pct >= 80 THEN 20 ELSE IF pct >= 50 THEN 10 ELSE 0)
                + (IF days >= 365 THEN 25 ELSE IF days >= 180 THEN 20
                   ELSE IF days >= 90 THEN 15 ELSE IF days >= 30 THEN 10 ELSE 0)
                + (IF lock_info.platform \in {"Team Finance", "Unicrypt", "PinkSale"}
                   THEN 20 ELSE 10)
         IN  Min(score, 100)

\* Token.__init__ (lines 73-134) for the fields the analysis reads; money in
\* whole dollars, age in whole hours, price change in whole percent.
\* market_cap is 0 when the data names no marketCap (line 112), and
\* liquidity_lock_period 0 stands for None (line 132).
NewToken(address, network, pair_address, liquidity_usd, volume_24h, market_cap, price_change_24h, age_hours, buys_24h, sells_24h, has_website, has_socials) ==
    [address |-> address, network |-> network, pair_address |-> pair_address,
     liquidity_usd |-> liquidity_usd, volume_24h |-> volume_24h,
     price_change_24h |-> price_change_24h, age_hours |-> age_hours,
     buys_24h |-> buys_24h, sells_24h |-> sells_24h,
     has_website |-> has_website, has_socials |-> has_socials,
     risk_score |-> 0, risk_level |-> "low",
     has_verification_result |-> FALSE, verification_result |-> DefaultResult,
     liquidity_lock_score |-> NoScore, liquidity_lock_info |-> DefaultLockInfo,
     market_cap |-> market_cap,
     security_score |-> NewSecToken.security_score,
     security_issues |-> NewSecToken.security_issues,
     contract_verified |-> NewSecToken.contract_verified,
     ownership_renounced |-> NewSecToken.ownership_renounced,
     liquidity_locked |-> NewSecToken.liquidity_locked,
     liquidity_lock_period |-> 0,
     honeypot_probability |-> NewSecToken.honeypot_probability]

\* A score that charges the lock points to the well-locked tokens.
RiskScoreOfLockInverted(token) ==
    LET liq == token.liquidity_usd
        vol == token.volume_24h
        total_txns == token.buys_24h + token.sells_24h
    IN    (IF token.price_change_24h > PriceChangeSuspicious THEN 30 ELSE 0)
        + (IF token.age_hours < 24 THEN 50 ELSE IF token.age_hours < 168 THEN 20 ELSE 0)
        + (IF liq < LiquidityHighRisk THEN 15 ELSE 0)
        + (IF liq > 0 /\ vol > VolLiqSuspicious * liq THEN 25 ELSE 0)
        + (IF ~token.has_website /\ ~token.has_socials THEN 20 ELSE 0)
        + (IF total_txns > 0 /\ 10 * token.sells_24h > 8 * total_txns THEN 25 ELSE 0)
        + (IF token.liquidity_lock_score # NoScore
           THEN (IF token.liquidity_lock_score >= 60 THEN 60
                 ELSE IF token.liquidity_lock_score >= 30 THEN 40
                 ELSE IF token.liquidity_lock_score > 0 THEN 20 ELSE 0)
           ELSE (IF liq >= 100000 /\ token.age_hours >= 720 THEN 10 ELSE 20))
        + (IF liq > 0 /\ vol > 20 * liq THEN 25
           ELSE IF liq > 0 /\ vol > 5 * liq THEN 10 ELSE 0)
        + (IF token.price_change_24h > 500 THEN 30 ELSE 0)

\* Lines 142-229: the score, which starts from 0.
RiskScoreOf(token) ==
    LET liq == token.liquidity_usd
        vol == token.volume_24h
        total_txns == token.buys_24h + token.sells_24h
    IN    (IF token.price_change_24h > PriceChangeSuspicious THEN 30 ELSE 0)
        + (IF token.age_hours < 24 THEN 50 ELSE IF token.age_hours < 168 THEN 20 ELSE 0)
        + (IF liq < LiquidityHighRisk THEN 15 ELSE 0)
        + (IF liq > 0 /\ vol > VolLiqSuspicious * liq THEN 25 ELSE 0)
        + (IF ~token.has_website /\ ~token.has_socials THEN 20 ELSE 0)
        + (IF total_txns > 0 /\ 10 * token.sells_24h > 8 * total_txns THEN 25 ELSE 0)
        + (IF token.liquidity_lock_score # NoScore
           THEN (IF token.liquidity_lock_score = 0 THEN 60
                 ELSE IF token.liquidity_lock_score < 30 THEN 40
                 ELSE IF token.liquidity_lock_score < 60 THEN 20 ELSE 0)
           ELSE (IF liq >= 100000 /\ token.age_hours >= 720 THEN 10 ELSE 20))
        + (IF liq > 0 /\ vol > 20 * liq THEN 25
           ELSE IF liq > 0 /\ vol > 5 * liq THEN 10 ELSE 0)
        + (IF token.price_change_24h > 500 THEN 30 ELSE 0)

\* Lines 206-209 and 232-266: the level the thresholds give.
LevelByThresholds(token, score) ==
    LET liquidity_lock_percentage ==
            IF token.liquidity_lock_info.is_locked
            THEN token.liquidity_lock_info.locked_percentage ELSE 0
        is_verified == token.has_verification_result /\ token.verification_result.is_verified
    IN  IF score >= 120 THEN "scam"
        ELSE IF score >= 80 THEN "high"
        ELSE IF score >= 50 THEN "medium"
        ELSE IF score >= 25 THEN "moderate"
        ELSE IF token.liquidity_usd < 100000 THEN "moderate"
        ELSE IF liquidity_lock_percentage = 0
             THEN (IF ~is_verified THEN "medium" ELSE "moderate")
        ELSE IF liquidity_lock_percentage >= 30 /\ token.liquidity_usd >= 100000 THEN "low"
        ELSE IF liquidity_lock_percentage >= 75 THEN "low"
        ELSE "moderate"

\* Lines 268-280: the liquidity floors of the medium and the high level.
LevelAfterFloors(token, level) ==
    LET l1 == IF level = "medium" /\ token.liquidity_usd < 50000 THEN "high" ELSE level
    IN  IF l1 = "high" /\ token.liquidity_usd < 25000 THEN "scam" ELSE l1

\* Token.calculate_risk_score (lines 136-291)
CalculateRiskScore(token) ==
    [token EXCEPT !.risk_score = RiskScoreOf(token),
                  !.risk_level = LevelAfterFloors(token, LevelByThresholds(token, RiskScoreOf(token)))]

\* One reason, when its condition holds.
When(condition, tag) == IF condition THEN <<tag>> ELSE <<>>

\* Lines 142-280: the reasons calculate_risk_score appends to risk_factors, in
\* the order of the appends; the function never empties the list.
ScoreFactors(token) ==
    LET liq == token.liquidity_usd
        vol == token.volume_24h
        total_txns == token.buys_24h + token.sells_24h
        lock == token.liquidity_lock_score
        score == RiskScoreOf(token)
        liquidity_lock_percentage ==
            IF token.liquidity_lock_info.is_locked
            THEN token.liquidity_lock_info.locked_percentage ELSE 0
        is_verified == token.has_verification_result /\ token.verification_result.is_verified
        level == LevelByThresholds(token, score)
    IN  When(token.price_change_24h > PriceChangeSuspicious, "price_growth")
        \o When(token.age_hours < 24, "new_token")
        \o When(token.age_hours >= 24 /\ token.age_hours < 168, "young_token")
        \o When(liq < LiquidityHighRisk, "low_liquidity")
        \o When(liq > 0 /\ vol > VolLiqSuspicious * liq, "volume_to_liquidity")
        \o When(~token.has_website /\ ~token.has_socials, "no_site_no_socials")
        \o When(total_txns > 0 /\ 10 * token.sells_24h > 8 * total_txns, "sell_ratio")
        \o When(lock # NoScore /\ lock = 0, "liquidity_not_locked")
        \o When(lock # NoScore /\ lock > 0 /\ lock < 30, "lock_low")
        \o When(lock # NoScore /\ lock >= 30 /\ lock < 60, "lock_medium")
        \o When(lock = NoScore /\ liq >= 100000 /\ token.age_hours >= 720,
                "lock_unchecked_large")
        \o When(lock = NoScore /\ ~(liq >= 100000 /\ token.age_hours >= 720), "lock_unchecked")
        \o When(liq > 0 /\ vol > 20 * liq, "volume_manipulation")
        \o When(liq > 0 /\ vol > 5 * liq /\ ~(vol > 20 * liq), "volume_volatility")
        \o When(token.price_change_24h > 500, "pump")
        \o When(score < 25 /\ liq < 100000, "liquidity_below_100k")
        \o When(score < 25 /\ liq >= 100000 /\ liquidity_lock_percentage = 0 /\ ~is_verified,
                "unverified_without_lock")
        \o When(score < 25 /\ liq >= 100000 /\ liquidity_lock_percentage = 0 /\ is_verified,
                "verified_without_lock")
        \o When(level = "medium" /\ liq < 50000, "liquidity_below_50k")
        \o When(LevelAfterFloors(token, level) = "scam" /\ level \in {"medium", "high"}
                   /\ liq < 25000, "liquidity_below_25k")

\* Lines 531-569: the reasons verify_contracts appends for a result.
VerificationFactors(token, verification_result) ==
    When(verification_result.is_honeypot, "honeypot")
    \o When(~verification_result.is_verified
              /\ token.liquidity_usd >= 100000
              /\ (token.age_hours >= 720 \/ token.has_website \/ token.has_socials),
            "unverified_large")
    \o When(~verification_result.is_verified
              /\ ~(token.liquidity_usd >= 100000
                   /\ (token.age_hours >= 720 \/ token.has_website \/ token.has_socials)),
            "unverified")
    \o When(verification_result.can_take_back_ownership, "owner_can_take_back")
    \o When(verification_result.has_mint_function, "mint")
    \o When(verification_result.has_blacklist, "blacklist")
    \o When(verification_result.is_proxy, "proxy")

\* Lines 531-569: what verify_contracts adds to risk_score.
VerificationPenalty(token, verification_result) ==
      (IF verification_result.is_honeypot THEN 50 ELSE 0)
    + (IF ~verification_result.is_verified
       THEN (IF token.liquidity_usd >= 100000
                /\ (token.age_hours >= 720 \/ token.has_website \/ token.has_socials)
             THEN 5 ELSE 15)
       ELSE 0)
    + (IF verification_result.can_take_back_ownership THEN 20 ELSE 0)
    + (IF verification_result.has_mint_function THEN 10 ELSE 0)
    + (IF verification_result.has_blacklist THEN 15 ELSE 0)
    + (IF verification_result.is_proxy THEN 10 ELSE 0)

\* Lines 520-596: one token of the loop of verify_contracts.
ApplyVerification(token, verification_results) ==
    IF token.address \in DOMAIN verification_results
    THEN LET verification_result == verification_results[token.address]
             risk_score == token.risk_score + VerificationPenalty(token, verification_result)
         IN  [token EXCEPT !.has_verification_result = TRUE,
                           !.verification_result = verification_result,
                           !.risk_score = risk_score,
                           !.risk_level = IF risk_score >= 80 THEN "scam"
                                          ELSE IF risk_score >= 60 THEN "high"
                                          ELSE IF risk_score >= 40 THEN "medium"
                                          ELSE "low"]
    ELSE [token EXCEPT !.has_verification_result = TRUE,
                       !.verification_result =
                           [DefaultResult EXCEPT !.error_message = "could not verify"]]

\* Lines 636-641: the lock is stored on the token with its score and the
\* two fields the security analysis reads; liquidity_lock_period None is 0.
StoreLock(token, lock_info) ==
    [token EXCEPT !.liquidity_lock_info = lock_info,
                  !.liquidity_lock_score = GetLockScore(lock_info),
                  !.liquidity_locked = lock_info.is_locked,
                  !.liquidity_lock_period = lock_info.lock_duration_days]

\* Lines 613-618: without a lock checker the token gets no lock and score 0.
NoLockChecker(token) ==
    [token EXCEPT !.liquidity_lock_info = DefaultLockInfo,
                  !.liquidity_lock_score = 0]

\* Lines 626-661: one token of the loop of check_liquidity_locks.  The
\* checker is new (line 622), its cache holds what the loop has stored since;
\* the clock does not move inside the loop, so that a hit returns what a miss
\* would compute.
ApplyLockCheck(token, time) ==
    IF token.pair_address # "" /\ token.address # "" /\ token.network # ""
    THEN StoreLock(token, LockInfoOf(token.address, token.network, time))
    ELSE [token EXCEPT !.liquidity_lock_info = DefaultLockInfo,
                       !.liquidity_lock_score = 0,
                       !.liquidity_locked = FALSE,
                       !.liquidity_lock_period = 0]

\* A placement that knows only the levels named in the loop and the lowest one.
RiskListStrict(level) ==
    CASE level = "scam" -> "scam_tokens"
      [] level = "high" -> "high_risk_tokens"
      [] level = "medium" -> "medium_risk_tokens"
      [] level = "low" -> "low_risk_tokens"
      [] OTHER -> "none"

\* Lines 769-776 (792-799): the output list of a risk level.
RiskListOf(level) ==
    CASE level = "scam" -> "scam_tokens"
      [] level = "high" -> "high_risk_tokens"
      [] level = "medium" -> "medium_risk_tokens"
      [] OTHER -> "low_risk_tokens"

\* The Token objects a list holds, as a set of identities.
Range2(list) == {list[i] : i \in DOMAIN list}

\* Lines 746-760: the scoring stage of analyze_all_tokens may begin.
ScoringMayStart(pc) == pc \in {"locked", "secured"}

\* Lines 746-748 and 489-513: stage 1, verify_contracts, begins.  Without
\* tokens (lines 491-492) or without the verifier module (available = FALSE,
\* lines 504-506) it returns at once and leaves the tokens untouched;
\* otherwise it calls verify_contracts_batch of the analyzer's verifier with
\* the <<address, network>> pairs of the tokens (lines 508-513) and waits.
VerifyContractsStart(available) ==
    /\ pipe_pc = "start"
    /\ pipe_path' = "async"
    /\ IF available /\ tokens # <<>>
       THEN /\ pipe_pc' = "verifying"
            /\ contracts' = [i \in DOMAIN tokens |-> <<tokens[i].address, tokens[i].network>>]
            /\ vb_pc' = "init"
            /\ vb_chain' = 0
            /\ vb_tasks' = <<>>
            /\ vb_results' = EmptyMap
            /\ vb_log' = {}
            /\ UNCHANGED stages_done
       ELSE /\ pipe_pc' = "verified"
            /\ stages_done' = stages_done \cup {"verification"}
            /\ UNCHANGED batchVars
    /\ UNCHANGED <<tokens, token_ids, pipe_index, scam_tokens, high_risk_tokens, medium_risk_tokens,
                   low_risk_tokens>>
    /\ UNCHANGED <<rateVars, sharedVars>>

\* Lines 513-609: verify_contracts_batch has returned its map, and the loop
\* writes the results to the tokens.
VerifyContractsFinish ==
    /\ pipe_pc = "verifying"
    /\ vb_pc = "done"
    /\ pipe_pc' = "verified"
    /\ tokens' = [i \in DOMAIN tokens |-> ApplyVerification(tokens[i], vb_results)]
    /\ stages_done' = stages_done \cup {"verification"}
    /\ UNCHANGED <<token_ids, pipe_path, pipe_index, scam_tokens, high_risk_tokens, medium_risk_tokens,
                   low_risk_tokens>>
    /\ UNCHANGED <<rateVars, batchVars, sharedVars>>

\* Lines 750-752 and 611-666: stage 2, check_liquidity_locks. available = FALSE
\* is the lock checker missing (lines 613-618).  Nothing in the stage waits:
\* check_liquidity_lock answers from its table and from the address.
CheckLiquidityLocks(available) ==
    /\ pipe_pc = "verified"
    /\ pipe_pc' = "locked"
    /\ tokens' = [i \in DOMAIN tokens |->
                    IF available THEN ApplyLockCheck(tokens[i], now)
                    ELSE NoLockChecker(tokens[i])]
    /\ stages_done' = stages_done \cup {"locks"}
    /\ UNCHANGED <<token_ids, pipe_path, pipe_index, scam_tokens, high_risk_tokens, medium_risk_tokens,
                   low_risk_tokens>>
    /\ UNCHANGED <<rateVars, batchVars, sharedVars>>

\* Lines 759-764: stage 4 begins, the output lists are emptied.
BeginScoring ==
    /\ ScoringMayStart(pipe_pc)
    /\ pipe_pc' = "scoring"
    /\ pipe_index' = 1
    /\ scam_tokens' = <<>>
    /\ high_risk_tokens' = <<>>
    /\ medium_risk_tokens' = <<>>
    /\ low_risk_tokens' = <<>>
    /\ UNCHANGED <<tokens, token_ids, pipe_path, stages_done>>

\* Lines 780-787: analyze_all_tokens_sync begins, without the stages 1 to 3.
BeginScoringSync ==
    /\ pipe_pc = "start"
    /\ pipe_pc' = "scoring"
    /\ pipe_path' = "sync"
    /\ pipe_index' = 1
    /\ scam_tokens' = <<>>
    /\ high_risk_tokens' = <<>>
    /\ medium_risk_tokens' = <<>>
    /\ low_risk_tokens' = <<>>
    /\ UNCHANGED <<tokens, token_ids, stages_done>>

\* Lines 766-776 (789-799): one round of the scoring loop.
ScoreToken ==
    /\ pipe_pc = "scoring"
    /\ pipe_index <= Len(tokens)
    /\ LET token == CalculateRiskScore(tokens[pipe_index])
           list == RiskListOf(token.risk_level)
       IN  /\ tokens' = [tokens EXCEPT ![pipe_index] = token]
           /\ scam_tokens' = IF list = "scam_tokens"
                             THEN Append(scam_tokens, token_ids[pipe_index]) ELSE scam_tokens
           /\ high_risk_tokens' = IF list = "high_risk_tokens"
                                  THEN Append(high_risk_tokens, token_ids[pipe_index])
                                  ELSE high_risk_tokens
           /\ medium_risk_tokens' = IF list = "medium_risk_tokens"
                                    THEN Append(medium_risk_tokens, token_ids[pipe_index])
                                    ELSE medium_risk_tokens
           /\ low_risk_tokens' = IF list = "low_risk_tokens"
                                 THEN Append(low_risk_tokens, token_ids[pipe_index])
                                 ELSE low_risk_tokens
    /\ pipe_index' = pipe_index + 1
    /\ UNCHANGED <<token_ids, pipe_pc, pipe_path, stages_done>>

\* Lines 778 (801): the loop is over, the analysis returns.
FinishAnalysis ==
    /\ pipe_pc = "scoring"
    /\ pipe_index > Len(tokens)
    /\ pipe_pc' = "done"
    /\ UNCHANGED <<tokens, token_ids, pipe_path, pipe_index, scam_tokens, high_risk_tokens,
                   medium_risk_tokens, low_risk_tokens, stages_done>>

\* list.sort(key=lambda x: x.price_change_24h, reverse=True) is stable: the
\* place the token at position p of the list takes in the sorted list.
GrowthPlace(list, p) ==
    1 + Cardinality({q \in DOMAIN list :
                        \/ list[q].price_change_24h > list[p].price_change_24h
                        \/ /\ list[q].price_change_24h = list[p].price_change_24h
                           /\ q < p})

\* The position of the list whose token takes place r of the sorted list.
GrowthSource(list, r) == CHOOSE p \in DOMAIN list : GrowthPlace(list, p) = r

\* Lines 862-865 and 1097-1102: generate_text_report called on the analyzer
\* after the analysis, without a list of its own and with no filtered tokens:
\* tokens_list is self.tokens itself, and line 1102 sorts it in place by the
\* growth of the day, the highest first.  The lists of the risk levels keep
\* the Token objects they hold.  written = FALSE is the report file that
\* cannot be opened (lines 870 and the except): nothing is sorted.
GenerateTextReport(written) ==
    /\ pipe_pc = "done"
    /\ pipe_pc' = "reported"
    /\ tokens' = IF written THEN [r \in DOMAIN tokens |-> tokens[GrowthSource(tokens, r)]]
                 ELSE tokens
    /\ token_ids' = IF written
                    THEN [r \in DOMAIN tokens |-> token_ids[GrowthSource(tokens, r)]]
                    ELSE token_ids
    /\ UNCHANGED <<pipe_path, pipe_index, scam_tokens, high_risk_tokens, medium_risk_tokens,
                   low_risk_tokens, stages_done>>

PipeConstructed ==
    /\ tokens = <<>>
    /\ token_ids = <<>>
    /\ pipe_pc = "start"
    /\ pipe_path = "none"
    /\ pipe_index = 0
    /\ scam_tokens = <<>>
    /\ high_risk_tokens = <<>>
    /\ medium_risk_tokens = <<>>
    /\ low_risk_tokens = <<>>
    /\ stages_done = {}

\* A token of the table of known locks (CAKE on bsc).
CakeToken == "0x0e09fabb73bd3ade0a17ecc321fd13a19e81ce82"

\* The tokens of the pipeline model: two addresses on ethereum (one the lock
\* heuristic takes for locked, one it does not), with or without a pair
\* address, young or mature, below or above the liquidity floors; and a
\* token on a second chain, which the table of known locks names.  The data
\* of the token of little liquidity name no marketCap; the young tokens rose
\* by 50 % in the day, the token of the second chain by 20 %.
PipeTokens ==
    {NewToken(address, "ethereum", pair_address, liquidity_usd, 0,
              IF liquidity_usd = 30000 THEN 0 ELSE 1000000,
              IF age_hours = 10 THEN 50 ELSE 0, age_hours, 0, 0, TRUE, FALSE) :
        address \in {"0x1a", "0xdd"}, pair_address \in {"0xpair", ""},
        liquidity_usd \in {30000, 200000}, age_hours \in {10, 1000}}
    \cup {NewToken(CakeToken, "bsc", "0xpair", 200000, 0, 1000000, 20, 1000, 0, 0, TRUE, FALSE)}

\* What GoPlus may answer with code 1 to a chunk of the pipeline: an entry,
\* readable or not, for some of the addresses asked, or a result that names
\* none of them.
PipeGoPlusAnswers(addresses) ==
    UNION {[found -> GoPlusEntries] :
              found \in SUBSET {Lower(a) : a \in Range(addresses)} \ {{}}}
        \cup {[a \in {"0xother"} |-> NoTokenInfo]}

InitBatch ==
    /\ VerifierRateConstructed
    /\ SharedConstructed
    /\ MultiConstructed
    /\ PipeConstructed
    /\ RestConstructed
    /\ contracts \in InputLists
    /\ vb_pc = "init"
    /\ vb_chain = 0
    /\ vb_tasks = <<>>
    /\ vb_results = EmptyMap
    /\ vb_log = {}

\* The steps of one call of verify_contracts_batch and of its chunk tasks.
BatchCall ==
    /\ \/ BatchStart
       \/ \E k \in 1..MaxContracts : ChunkAcquire(k)
       \/ \E k \in 1..MaxContracts : ChunkSend(k)
       \/ \E k \in 1..MaxContracts, outcome \in {"http_error", "exception", "api_error"} :
             ChunkResponse(k, outcome, EmptyMap)
       \/ \E k \in 1..MaxContracts, found \in SUBSET {Lower(a) : a \in Addresses} :
             /\ found # {}
             /\ \E goplus_result \in [found -> GoPlusEntries] :
                   ChunkResponse(k, "ok", goplus_result)
       \/ \E k \in 1..MaxContracts : SolanaTokenSend(k)
       \/ \E k \in 1..MaxContracts, listed \in SUBSET Addresses :
             SolanaTokenResponse(k, listed)
       \/ \E k \in 1..MaxContracts : SolanaContractSend(k)
       \/ \E k \in 1..MaxContracts, known \in SUBSET Addresses :
             SolanaContractResponse(k, known)
       \/ \E k \in 1..MaxContracts : ChunkFallback(k)
       \/ BatchMerge
       \/ LimiterStep
    /\ UNCHANGED <<multiVars, pipeVars, restVars>>

NextBatch ==
    \/ BatchCall
    \/ /\ RequestTick
       /\ UNCHANGED <<batchVars, goplus_semaphore, pipeVars, restVars>>

SpecBatch == InitBatch /\ [][NextBatch]_vars

\* ---- verify_contracts_batch under the scheduling of the event loop ----
\* GOPLUS_CONCURRENCY is read from the environment (config.py:36): the pool
\* has any size from 1 up, so that chunks of one chain may have to take turns.
\* A fixed order of the <<address, chain>> pairs.
LiveRank(pair) ==
    (CASE pair[1] = "0xA" -> 0 [] pair[1] = "0xa" -> 3 [] OTHER -> 6)
        + (CASE pair[2] = "ethereum" -> 0 [] pair[2] = "solana" -> 1 [] OTHER -> 2)

\* The inputs of the liveness check: a chain GoPlus serves, Solana, and a
\* chain without any source (lines 198-201 and 272-294), one list for every
\* set of pairs; any of the chains may come first.
LiveInputLists ==
    {s \in InputLists :
        \A i \in 1..(Len(s) - 1) : LiveRank(s[i]) < LiveRank(s[i + 1])}

\* The verifier is new, or its limiter has let through a minute's worth of
\* GoPlus requests in an earlier call (LimiterUsed), so that the next chunk has
\* to sleep until the minute is over (lines 586-590).  Time passes by the
\* sleeps of the limiter alone.
InitBatchLive ==
    /\ VerifierRateConstructed \/ LimiterUsed
    /\ goplus_semaphore \in 1..GOPLUS_CONCURRENCY
    /\ inflight = [a \in APIs |-> 0]
    /\ cache = [k \in {} |-> <<0, DefaultResult>>]
    /\ MultiConstructed
    /\ PipeConstructed
    /\ RestConstructed
    /\ contracts \in LiveInputLists
    /\ vb_pc = "init"
    /\ vb_chain = 0
    /\ vb_tasks = <<>>
    /\ vb_results = EmptyMap
    /\ vb_log = {}

\* A step of the batch call, the other components standing still.
BatchStep(A) == A /\ UNCHANGED <<multiVars, pipeVars, restVars>>

\* The event loop runs every task that is ready (asyncio.gather, line 146):
\* a free slot of the semaphore is handed to a waiting chunk, the timers of
\* asyncio.sleep fire, and every request returns or times out.
BatchFairness ==
    /\ WF_vars(BatchStep(BatchStart))
    /\ WF_vars(BatchStep(\E k \in 1..MaxContracts : ChunkAcquire(k)))
    /\ WF_vars(BatchStep(\E k \in 1..MaxContracts : ChunkSend(k)))
    /\ WF_vars(BatchStep(\E k \in 1..MaxContracts, outcome \in {"http_error", "exception", "api_error"} :
                            ChunkResponse(k, outcome, EmptyMap)))
    /\ WF_vars(BatchStep(\E k \in 1..MaxContracts : SolanaTokenSend(k)))
    /\ WF_vars(BatchStep(\E k \in 1..MaxContracts, listed \in SUBSET Addresses :
                            SolanaTokenResponse(k, listed)))
    /\ WF_vars(BatchStep(\E k \in 1..MaxContracts : SolanaContractSend(k)))
    /\ WF_vars(BatchStep(\E k \in 1..MaxContracts, known \in SUBSET Addresses :
                            SolanaContractResponse(k, known)))
    /\ WF_vars(BatchStep(\E k \in 1..MaxContracts : ChunkFallback(k)))
    /\ WF_vars(BatchStep(BatchMerge))
    /\ WF_vars(BatchStep(LimiterStep))

SpecBatchLive == InitBatchLive /\ [][BatchCall]_vars /\ BatchFairness

\* C30: verify_contracts_batch returns in the end, whatever the input, the
\* size of the pool and the answers: no chunk waits for ever for the
\* semaphore, the rate limiter or its request.
C30_EventuallyReturns == <>(vb_pc = "done")

\* The call has returned for a chain of more chunks than the pool has slots,
\* after a chunk has slept until the end of the limiter's minute.
C30_Witness ==
    /\ vb_pc = "done"
    /\ goplus_semaphore = 1
    /\ \E c \in Chains : Len(Batches(AddressesOf(contracts, c))) > 1
    /\ counter_reset_time = RateWindow

Requested == {contracts[i][1] : i \in DOMAIN contracts}

\* Addresses the input names once (on one chain only).
RequestedOnce ==
    {a \in Requested : Cardinality({i \in DOMAIN contracts : contracts[i][1] = a}) = 1}

\* The chunks the call is made of: <<chain, addresses>>.
AllChunks ==
    UNION {{<<ChainOrder(contracts)[i], Batches(AddressesOf(contracts, ChainOrder(contracts)[i]))[k]>> :
               k \in DOMAIN Batches(AddressesOf(contracts, ChainOrder(contracts)[i]))} :
           i \in DOMAIN ChainOrder(contracts)}

\* C1: when verify_contracts_batch returns, the keys of the returned map are
\* exactly the requested addresses, whatever the sources answered.
C1_Completeness ==
    vb_pc = "done" => DOMAIN vb_results = Requested

\* C28: when verify_contracts_batch returns, every (address, chain) pair of
\* the input has in the returned map the result its own chain's chunk
\* delivered for the address, also when the address is submitted on another
\* chain as well.
C28_PerChainResult ==
    vb_pc = "done" =>
        \A i \in DOMAIN contracts : \A e \in vb_log :
            (e.chain = contracts[i][2] /\ contracts[i][1] \in DOMAIN e.result)
                => vb_results[contracts[i][1]] = e.result[contracts[i][1]]

\* C5: when verify_contracts_batch returns, every chunk has run to its end,
\* and every result of a chunk that did not fail is in the returned map,
\* whether or not other chunks failed.
C5_FailureIsolation ==
    vb_pc = "done" =>
        /\ \A c \in AllChunks : \E e \in vb_log : e.chain = c[1] /\ e.addresses = c[2]
        /\ \A e \in vb_log : \A a \in DOMAIN e.result \cap RequestedOnce :
               a \in DOMAIN vb_results /\ vb_results[a] = e.result[a]

\* A call has returned in which the first chunk of a chain failed and the
\* next chunk of the same chain delivered a result.
C5_Witness ==
    /\ vb_pc = "done"
    /\ \E e1, e2 \in vb_log :
          /\ e1.failed /\ ~e2.failed
          /\ e1.chain = e2.chain
          /\ e1.addresses = Batches(AddressesOf(contracts, e1.chain))[1]
          /\ DOMAIN e2.result # {} /\ DOMAIN e2.result \subseteq RequestedOnce



(***************************************************************************)
(* verify_contracts_batch against sources whose answers are fixed          *)
(***************************************************************************)
\* The chains of this specification: one the primary source supports, one
\* with a heuristic of its own and one with neither.
OrderChains == {"ethereum", "solana", "zksync"}

OrderInputLists == {cs \in InputLists : \A i \in DOMAIN cs : cs[i][2] \in OrderChains}

\* What the primary source holds about the tokens, as three possible
\* databases; the last has an entry that cannot be read.
OrderGoPlusResults ==
    {[a \in {"0xa"} |-> [NoTokenInfo EXCEPT !.is_honeypot = TRUE]],
     [a \in {"0xa", "0xb"} |-> [NoTokenInfo EXCEPT !.is_open_source = (a = "0xa"),
                                                   !.is_honeypot = (a = "0xb")]],
     [a \in {"0xa"} |-> NullTokenInfo]}

\* The fixed answers: the outcome of the request of the k-th chunk of a chain,
\* the database of the primary source, the addresses on the Solana token list
\* and the addresses the Solana RPC endpoints know.
OrderResponses ==
    [outcome : [1..MaxChunks -> {"ok", "api_error", "exception"}],
     goplus_result : OrderGoPlusResults,
     listed : {{}, {"0xa"}},
     known : {{}, {"0xb"}}]

InitOrder ==
    /\ VerifierRateConstructed
    /\ SharedConstructed
    /\ MultiConstructed
    /\ PipeConstructed
    /\ contracts \in OrderInputLists
    /\ vb_pc = "init"
    /\ vb_chain = 0
    /\ vb_tasks = <<>>
    /\ vb_results = EmptyMap
    /\ vb_log = {}
    /\ responses \in OrderResponses
    /\ vb_order = <<>>
    /\ ScanConstructed /\ LockScoreConstructed /\ RiskConstructed /\ RepeatConstructed /\ SecConstructed

\* Observer: the chunk k is appended when the step ends its task.
OrderAfter(k) ==
    IF vb_tasks'[k].pc = "done" THEN Append(vb_order, <<vb_chain, k>>) ELSE vb_order

\* The chunk tasks run in any interleaving; each gets the answer fixed for it.
NextOrder ==
    \/ /\ \/ BatchStart /\ UNCHANGED vb_order
          \/ \E k \in 1..MaxChunks : ChunkAcquire(k) /\ UNCHANGED vb_order
          \/ \E k \in 1..MaxChunks : ChunkSend(k) /\ UNCHANGED vb_order
          \/ \E k \in 1..MaxChunks :
                /\ ChunkResponse(k, responses.outcome[k], responses.goplus_result)
                /\ vb_order' = OrderAfter(k)
          \/ \E k \in 1..MaxChunks : SolanaTokenSend(k) /\ UNCHANGED vb_order
          \/ \E k \in 1..MaxChunks :
                /\ SolanaTokenResponse(k, responses.listed)
                /\ vb_order' = OrderAfter(k)
          \/ \E k \in 1..MaxChunks : SolanaContractSend(k) /\ UNCHANGED vb_order
          \/ \E k \in 1..MaxChunks :
                /\ SolanaContractResponse(k, responses.known)
                /\ vb_order' = OrderAfter(k)
          \/ \E k \in 1..MaxChunks :
                /\ ChunkFallback(k)
                /\ vb_order' = OrderAfter(k)
          \/ BatchMerge /\ UNCHANGED vb_order
          \/ LimiterStep /\ UNCHANGED vb_order
       /\ UNCHANGED <<responses, multiVars, pipeVars, scanVars, lockScoreVars, riskVars,
                      repeatVars, secVars>>

SpecOrder == InitOrder /\ [][NextOrder]_vars

\* Lines 346-371: the addresses _check_solana_token_basic finds, on the token
\* list or through an RPC endpoint.
OrderFound == responses.listed \cup responses.known

\* What the k-th chunk of a chain returns under the fixed answers.
ChunkResultUnder(chain, addresses, k) ==
    IF GoPlusSupports(chain)
    THEN GoPlusBatchResult(addresses, responses.outcome[k], responses.goplus_result)
    ELSE [a \in Range(addresses) |-> FallbackResultFor(chain, a \in OrderFound)]

RECURSIVE SequentialResults(_, _, _)
\* The map of a run that takes the chunks one after the other: chain i, chunk
\* k, onto the map m built so far.
SequentialResults(m, i, k) ==
    IF i > Len(ChainOrder(contracts)) THEN m
    ELSE LET chain == ChainOrder(contracts)[i]
             batches == Batches(AddressesOf(contracts, chain))
         IN  IF k > Len(batches) THEN SequentialResults(m, i + 1, 1)
             ELSE SequentialResults(MapUpdate(m, ChunkResultUnder(chain, batches[k], k)),
                                    i, k + 1)

\* C11: whatever the interleaving and the completion order of the chunk
\* tasks, the returned map is the one the input list and the fixed answers
\* determine (the map of the run that takes the chunks one after the other).
C11_OrderIndependent ==
    vb_pc = "done" => vb_results = SequentialResults(EmptyMap, 1, 1)

\* A call has returned in which a later chunk of a chain finished before an
\* earlier one and both delivered results.
C11_Witness ==
    /\ vb_pc = "done"
    /\ \E i, j \in DOMAIN vb_order :
          /\ i < j
          /\ vb_order[i][1] = vb_order[j][1]
          /\ vb_order[i][2] > vb_order[j][2]
    /\ Cardinality(DOMAIN vb_results) = MaxContracts

\* A step of the fallback chain that gave nothing.
NoAnswer == [DefaultResult EXCEPT !.verification_source = "no answer"]

\* Lines 272-287: the heuristic of the chain, where there is one: the token
\* list of Solana, the static defaults of TON and Sonic.
ChainHeuristic(chain, found) ==
    CASE chain = "solana" /\ found ->
            [DefaultResult EXCEPT !.is_verified = TRUE,
                                  !.verification_source = "Solana Token Registry"]
      [] chain \in {"ton", "sonic"} -> FallbackResultFor(chain, found)
      [] OTHER -> NoAnswer

\* Lines 465-472: the explorer API, which exists for ethereum and bsc only.
ExplorerAnswer(chain, is_verified) ==
    IF ExplorerOf(chain) = "none" THEN NoAnswer
    ELSE [DefaultResult EXCEPT !.is_verified = is_verified]

\* Lines 279 and 294: the result when nothing answered.
UnknownResult(chain) ==
    [DefaultResult EXCEPT !.verification_source =
        IF chain = "solana" THEN "Solana (not found)" ELSE "chain (not supported)"]

\* The fallback chain in its order: heuristic, explorer, unknown.
FallbackChain(chain, found, is_verified) ==
    IF ChainHeuristic(chain, found) # NoAnswer THEN ChainHeuristic(chain, found)
    ELSE IF ExplorerAnswer(chain, is_verified) # NoAnswer
         THEN ExplorerAnswer(chain, is_verified)
    ELSE UnknownResult(chain)

\* C23: every address of a finished chunk on a chain the primary source does
\* not support has the result of the fallback chain taken in order: that of
\* the chain's heuristic if it gave one, else that of the explorer API if it
\* gave one, and the unknown result only when both gave nothing.
C23_FallbackOrder ==
    \A e \in vb_log : ~GoPlusSupports(e.chain) =>
        \A a \in Range(e.addresses) : \A is_verified \in BOOLEAN :
            /\ a \in DOMAIN e.result
            /\ e.result[a] = FallbackChain(e.chain, a \in OrderFound, is_verified)

\* A call has returned in which the heuristic of Solana answered for one
\* address and not for another, and a chain with neither heuristic nor
\* explorer was asked too.
C23_Witness ==
    /\ vb_pc = "done"
    /\ \E e \in vb_log : \E a, b \in Range(e.addresses) :
          /\ e.chain = "solana"
          /\ e.result[a].verification_source = "Solana Token Registry"
          /\ e.result[b] = UnknownResult("solana")
    /\ \E e \in vb_log : \E a \in Range(e.addresses) :
          /\ e.chain = "zksync"
          /\ e.result[a] = UnknownResult("zksync")

\* Lines 238-245: the result of an address the answer does not name.
NotFoundResult == [DefaultResult EXCEPT !.verification_source = "GoPlus Security (not found)"]

\* The finished chunks the primary source answered successfully (status 200,
\* code 1, every entry an object), each with the addresses its answer left out.
OmittedBy(e) ==
    IF /\ GoPlusSupports(e.chain)
       /\ \E k \in DOMAIN Batches(AddressesOf(contracts, e.chain)) :
             /\ Batches(AddressesOf(contracts, e.chain))[k] = e.addresses
             /\ responses.outcome[k] = "ok"
             /\ ~GoPlusFailed(e.addresses, "ok", responses.goplus_result)
    THEN {a \in Range(e.addresses) : Lower(a) \notin DOMAIN responses.goplus_result}
    ELSE {}

\* C16: an address of a chunk that the primary source answered successfully
\* without naming it is a key of the chunk's result, mapped to the default
\* result (not verified, not honeypot) annotated with the primary source; and
\* when the call returns the address is a key of the returned map, with that
\* result when the input names the address on one chain only.
C16_OmittedAddressDefault ==
    \A e \in vb_log : \A a \in OmittedBy(e) :
        /\ a \in DOMAIN e.result
        /\ e.result[a] = NotFoundResult
        /\ vb_pc = "done" =>
              /\ a \in DOMAIN vb_results
              /\ a \in RequestedOnce => vb_results[a] = NotFoundResult

\* A call has returned in which one successful answer named one address of
\* its chunk and left out the other, and the returned map has both.
C16_Witness ==
    /\ vb_pc = "done"
    /\ \E e \in vb_log : \E a \in OmittedBy(e) : \E b \in Range(e.addresses) :
          /\ b \notin OmittedBy(e)
          /\ {a, b} \subseteq RequestedOnce
          /\ vb_results[b].verification_source = "GoPlus Security"
          /\ vb_results[a] = NotFoundResult
          /\ ~vb_results[a].is_verified /\ ~vb_results[a].is_honeypot

InitMulti ==
    /\ VerifierRateConstructed /\ BatchConstructed /\ SharedConstructed /\ MultiConstructed
    /\ PipeConstructed /\ RestConstructed

NextMulti ==
    \/ /\ \/ \E t \in Callers, address \in MultiAddresses, chain \in MultiChains :
                cache_calls < MaxMultiCalls /\ MultiStart(t, address, chain)
          \/ \E t \in Callers, which \in {"goplus", "explorer", "rpc"} : MultiSend(t, which)
          \/ \E t \in Callers, outcome \in {"not_found", "unavailable"} :
                MultiGoPlusResponse(t, outcome, NoTokenInfo)
          \/ \E t \in Callers, token_info \in TokenInfos :
                MultiGoPlusResponse(t, "found", token_info)
          \/ \E t \in Callers, outcome \in {"found", "unavailable"}, is_verified \in BOOLEAN :
                MultiExplorerResponse(t, outcome, is_verified)
          \/ \E t \in Callers, outcome \in {"found", "unavailable"} : MultiRpcResponse(t, outcome)
          \/ LimiterStep
          \/ ClearCache
       /\ UNCHANGED <<batchVars, pipeVars, restVars, goplus_semaphore, lock_cache, ticks>>
    \/ /\ RequestTick
       /\ UNCHANGED <<batchVars, pipeVars, restVars, goplus_semaphore>>

SpecMulti == InitMulti /\ [][NextMulti]_vars

\* C18: when the primary source has given a verification status for the
\* address and the explorer, next in the fallback order, answers as well, the
\* call returns the status of the primary source, whatever the explorer said.
C18_PriorityWins ==
    [][\A t \in Callers :
          (/\ mv_pc[t] = "explorer_http"
           /\ mv_pc'[t] = "idle"
           /\ mv_result[t].verification_source = "GoPlus Security")
              => returned'.result.is_verified = mv_result[t].is_verified]_vars

\* The caches over time: verification calls on Solana and on a chain without a
\* source, lock checks, and the clock.
InitCache == InitMulti

NextCache ==
    /\ \/ \E t \in Callers, address \in CacheAddresses, chain \in CacheChains :
             MultiStart(t, address, chain)
       \/ \E t \in Callers : MultiSend(t, "rpc")
       \/ \E t \in Callers, outcome \in {"found", "unavailable"} : MultiRpcResponse(t, outcome)
       \/ \E token_address \in CacheLockTokens, pair_address \in LockPairs, network \in LockNetworks :
             CheckLiquidityLock(token_address, pair_address, network)
       \/ \E d \in CacheSteps : CacheTick(d)
       \/ LimiterStep
       \/ ClearCache
    /\ UNCHANGED <<batchVars, pipeVars, restVars, goplus_semaphore>>

SpecCache == InitCache /\ [][NextCache]_vars

TtlOf(which) == IF which = "lock" THEN lock_cache_ttl ELSE cache_ttl

\* C4: in both caches a lookup is a hit exactly when a value was stored under
\* the key fewer than ttl seconds before; a hit returns the value stored last
\* under the key, and a miss of the lock cache returns a value computed at the
\* time of the lookup.
C4_CacheTtl ==
    \A which \in {"verification", "lock"} :
        LET l == lookups[which]
        IN  l.time # NoTime =>
               /\ l.hit <=> (l.present /\ l.time - l.stored_at < TtlOf(which))
               /\ l.hit => l.value = l.stored_value
               /\ (~l.hit /\ which = "lock") =>
                     l.value = LockInfoOf(l.key[1], l.key[3], l.time)

\* The verification cache missed an entry exactly ttl old, and the lock cache
\* hit an entry one step younger than ttl.
C4_Witness ==
    /\ ~lookups["verification"].hit /\ lookups["verification"].present
    /\ lookups["verification"].time - lookups["verification"].stored_at = cache_ttl
    /\ lookups["lock"].hit
    /\ lookups["lock"].time - lookups["lock"].stored_at = lock_cache_ttl - 1
    /\ lookups["lock"].value.unlock_date < lookups["lock"].time + 365 * DayLength

\* C6: a call that met an unavailable source returns a result that names a
\* source.
C6_UnavailableAnnotated ==
    returned.unavailable => returned.result.verification_source # ""

\* C9: the requests in flight to a source never exceed the size of its pool.
C9_PoolBound ==
    /\ inflight["goplus"] <= GOPLUS_CONCURRENCY
    /\ inflight["etherscan"] <= 1
    /\ inflight["bscscan"] <= 1

(***************************************************************************)
(* Specification of the rate limiter                                       *)
(***************************************************************************)
InitRate ==
    /\ RateConstructed /\ BatchConstructed /\ SharedConstructed /\ MultiConstructed
    /\ PipeConstructed /\ RestConstructed

NextRate ==
    /\ \/ \E t \in Tasks, api \in APIs : rl_calls < MaxCalls /\ RespectEnter(t, api)
       \/ \E t \in Tasks : RespectLimitWake(t)
       \/ \E t \in Tasks : RespectDelayWake(t)
       \/ Tick
    /\ UNCHANGED <<batchVars, sharedVars, multiVars, pipeVars, restVars>>

SpecRate == InitRate /\ [][NextRate]_vars

\* C2: within the observed 60-second window no source with a per-minute
\* limit N has more than N requests admitted by _respect_rate_limit.
C2_RateBound ==
    \A a \in APIs : RateLimitOf(a) > 0 => obs_count[a] <= RateLimitOf(a)

\* C29: the request counter of every source equals the number of requests
\* admitted for the source since the start of the current window, and no
\* counter has been zeroed before a full window had elapsed.
C29_CountersExact ==
    /\ \A a \in APIs : request_counters[a] = win_count[a]
    /\ ~reset_early

\* C10: two consecutive admissions of the same source are at least the
\* source's minimum inter-request delay apart.
C10_MinSpacing ==
    \A a \in APIs : adm_gap[a] # NoTime => adm_gap[a] >= request_delays[a]

(***************************************************************************)
(* Specification of the DEXScreener client                                 *)
(***************************************************************************)
InitScan ==
    /\ RateConstructed /\ BatchConstructed /\ SharedConstructed /\ MultiConstructed
    /\ PipeConstructed /\ OrderConstructed /\ ScanConstructed /\ LockScoreConstructed
    /\ RiskConstructed /\ RepeatConstructed /\ SecConstructed

NextScan ==
    /\ \/ \E w \in Scanners : ScanStart(w)
       \/ \E w \in Scanners : ScanWake(w)
       \/ \E w \in Scanners, outcome \in ScanOutcomes : ScanResponse(w, outcome)
       \/ \E w \in Scanners, body \in ScanBodies : ScanBody(w, body)
    /\ UNCHANGED <<rateVars, batchVars, sharedVars, multiVars, pipeVars, orderVars, lockScoreVars,
                   riskVars, repeatVars, secVars>>

SpecScan == InitScan /\ [][NextScan]_vars

\* C12: a call makes at most max_retries HTTP attempts; every attempt that
\* failed is one of them, the attempt in flight is the only one that has not
\* failed yet, a call never sleeps for a retry once its attempts are used up,
\* and a call that returned {} did so after max_retries failed attempts.
C12_BoundedAttempts ==
    /\ \A w \in Scanners :
          /\ sc_made[w] <= max_retries
          /\ sc_pc[w] \in {"http", "body"} => sc_made[w] = sc_failed[w] + 1
          /\ sc_pc[w] = "backoff" => (sc_made[w] = sc_failed[w] /\ sc_made[w] < max_retries)
    /\ sc_done.made <= max_retries
    /\ sc_done.result = "json" => sc_done.made = sc_done.failed + 1
    /\ sc_done.result = "empty" =>
          (sc_done.made = sc_done.failed /\ sc_done.made = max_retries)

\* A call has returned {} after max_retries failed attempts while another
\* call waits for its last attempt.
C12_Witness ==
    /\ sc_done.result = "empty" /\ sc_done.failed = max_retries
    /\ \E u \in Scanners : sc_pc[u] = "backoff" /\ sc_made[u] = max_retries - 1

\* C19: the adaptive delay stays between the floor of 2 s and the cap of
\* 15 s; a 429 response doubles it, up to the cap; and the attempt of a
\* call that returned the body of its response (a clean success) multiplied
\* it by 0.95, down to the floor.
C19_AdaptiveDelayBounds ==
    /\ adaptive_delay >= AdaptiveFloor
    /\ adaptive_delay <= AdaptiveCap
    /\ sc_last.after = adaptive_delay
    /\ sc_last.outcome = "rate_limited" =>
           \/ sc_last.after = 2 * sc_last.before
           \/ sc_last.after = AdaptiveCap /\ 2 * sc_last.before > AdaptiveCap
    /\ sc_done.result = "json" =>
           \/ sc_done.update.after = (sc_done.update.before * 95) \div 100
           \/ /\ sc_done.update.after = AdaptiveFloor
              /\ (sc_done.update.before * 95) \div 100 <= AdaptiveFloor

(***************************************************************************)
(* Specification of get_lock_score on its own                              *)
(***************************************************************************)
\* The arguments: percentages (whole percent) and durations (days) on both
\* sides of every threshold of the function, a duration that has run out, a
\* percentage above 100, a trusted and an unknown platform, and no platform.
LockPercentages == {0, 49, 50, 79, 80, 89, 90, 150}
LockDurations == {0 - 1, 29, 30, 89, 90, 179, 180, 364, 365, 400}
LockPlatforms == {"", "Unicrypt", "DxSale"}

LockInfos ==
    [is_locked : BOOLEAN, locked_percentage : LockPercentages,
     lock_duration_days : LockDurations, platform : LockPlatforms]

\* A call that has its argument and has not returned yet.
LockCalls == {[lock_info |-> i, score |-> NoScore] : i \in LockInfos}

\* The first call returns.
ScoreLockBefore ==
    /\ lock_scored_before.score = NoScore
    /\ lock_scored_before' = [lock_scored_before EXCEPT
                                 !.score = GetLockScore(lock_scored_before.lock_info)]
    /\ UNCHANGED lock_scored

\* The second call returns.
ScoreLock ==
    /\ lock_scored_before.score # NoScore
    /\ lock_scored.score = NoScore
    /\ lock_scored' = [lock_scored EXCEPT !.score = GetLockScore(lock_scored.lock_info)]
    /\ UNCHANGED lock_scored_before

InitLockScore ==
    /\ RateConstructed /\ BatchConstructed /\ SharedConstructed /\ MultiConstructed
    /\ PipeConstructed /\ OrderConstructed /\ ScanConstructed /\ RiskConstructed
    /\ RepeatConstructed /\ SecConstructed
    /\ lock_scored_before \in LockCalls
    /\ lock_scored \in LockCalls

NextLockScore ==
    /\ ScoreLockBefore \/ ScoreLock
    /\ UNCHANGED <<rateVars, batchVars, sharedVars, multiVars, pipeVars, orderVars, scanVars,
                   riskVars, repeatVars, secVars>>

SpecLockScore == InitLockScore /\ [][NextLockScore]_vars

\* The two arguments differ in nothing but the named field, which did not go down.
SameButPercentage(a, b) ==
    /\ a.is_locked = b.is_locked /\ a.platform = b.platform
    /\ a.lock_duration_days = b.lock_duration_days
    /\ a.locked_percentage <= b.locked_percentage

SameButDuration(a, b) ==
    /\ a.is_locked = b.is_locked /\ a.platform = b.platform
    /\ a.locked_percentage = b.locked_percentage
    /\ a.lock_duration_days <= b.lock_duration_days

\* C14: of two calls whose arguments differ only in locked_percentage, or
\* only in lock_duration_days, the one with the larger value does not score
\* lower.
C14_LockScoreMonotone ==
    lock_scored.score # NoScore =>
    /\ SameButPercentage(lock_scored_before.lock_info, lock_scored.lock_info)
          => lock_scored_before.score <= lock_scored.score
    /\ SameButDuration(lock_scored_before.lock_info, lock_scored.lock_info)
          => lock_scored_before.score <= lock_scored.score

\* Two calls on locked liquidity that differ only in the percentage, 89 and
\* then 90, the second scoring higher.
C14_Witness ==
    /\ lock_scored.score # NoScore
    /\ lock_scored.lock_info.is_locked
    /\ SameButPercentage(lock_scored_before.lock_info, lock_scored.lock_info)
    /\ lock_scored_before.lock_info.locked_percentage = 89
    /\ lock_scored.lock_info.locked_percentage = 90
    /\ lock_scored_before.score < lock_scored.score

\* C15: the score of an argument with is_locked false is 0 whatever its
\* other fields, and every score lies within 0..100.
C15_LockScoreRange ==
    lock_scored.score # NoScore =>
    /\ ~lock_scored.lock_info.is_locked => lock_scored.score = 0
    /\ lock_scored.score >= 0 /\ lock_scored.score <= 100

\* Unlocked liquidity with the best other fields scored 0 right after the
\* same fields, locked, scored 100.
C15_Witness ==
    /\ ~lock_scored.lock_info.is_locked
    /\ lock_scored.lock_info.locked_percentage = 150
    /\ lock_scored.lock_info.lock_duration_days = 400
    /\ lock_scored.lock_info.platform = "Unicrypt"
    /\ lock_scored.score = 0
    /\ lock_scored_before.lock_info = [lock_scored.lock_info EXCEPT !.is_locked = TRUE]
    /\ lock_scored_before.score = 100

(***************************************************************************)
(* Specification of the analysis of one token                              *)
(***************************************************************************)
\* The tokens: an address the lock heuristic takes for locked and one it does
\* not, liquidity on both sides of every floor of the score, a quiet and a
\* heavy trading volume, three ages, with or without a website.
RiskTokens ==
    {NewToken(address, "ethereum", "0xpair", liquidity_usd, volume_24h, 5 * liquidity_usd, 0,
              age_hours, 0, 0, has_website, FALSE) :
        address \in {"0x1a", "0xdd"},
        liquidity_usd \in {0, 500, 20000, 30000, 60000, 200000},
        volume_24h \in {0, 150000}, age_hours \in {10, 200, 1000},
        has_website \in BOOLEAN}

\* What the steps of the verifier leave alone while the token waits for it.
riskIdle == <<multiVars, pipeVars, orderVars, scanVars, lockScoreVars, riskVars, repeatVars,
              secVars>>

\* Lines 489-513: verify_contracts on the token begins.  Without the verifier
\* module (available = FALSE, the ImportError of lines 504-506) it returns at
\* once and the token keeps no verification result; otherwise it calls
\* verify_contracts_batch of the analyzer's verifier with the <<address,
\* network>> pair of the token and waits (line 513).
RiskVerifyStart(available) ==
    /\ risk_pc = "new"
    /\ IF available
       THEN /\ risk_pc' = "verifying"
            /\ contracts' = << <<risk_token.address, risk_token.network>> >>
            /\ vb_pc' = "init"
            /\ vb_chain' = 0
            /\ vb_tasks' = <<>>
            /\ vb_results' = EmptyMap
            /\ vb_log' = {}
       ELSE /\ risk_pc' = "verified"
            /\ UNCHANGED batchVars
    /\ UNCHANGED <<risk_token, risk_unavailable, risk_factors, risk_first>>
    /\ UNCHANGED <<rateVars, sharedVars>>

\* The steps of verify_contracts_batch and of its chunk task, with the rate
\* limiter, the semaphore and the cache of the verifier, while
\* verify_contracts waits for it (line 513).
RiskVerifierStep ==
    \/ risk_pc = "verifying" /\ BatchStart /\ UNCHANGED riskIdle
    \/ \E k \in DOMAIN vb_tasks : risk_pc = "verifying" /\ ChunkAcquire(k) /\ UNCHANGED riskIdle
    \/ \E k \in DOMAIN vb_tasks : risk_pc = "verifying" /\ ChunkSend(k) /\ UNCHANGED riskIdle
    \/ \E k \in DOMAIN vb_tasks, outcome \in {"http_error", "exception", "api_error"} :
          risk_pc = "verifying" /\ ChunkResponse(k, outcome, EmptyMap) /\ UNCHANGED riskIdle
    \/ \E k \in DOMAIN vb_tasks :
          \E goplus_result \in PipeGoPlusAnswers(vb_tasks[k].addresses) :
             risk_pc = "verifying" /\ ChunkResponse(k, "ok", goplus_result) /\ UNCHANGED riskIdle
    \/ risk_pc = "verifying" /\ BatchMerge /\ UNCHANGED riskIdle
    \/ risk_pc = "verifying" /\ LimiterStep /\ UNCHANGED riskIdle

\* Lines 513-609: verify_contracts_batch has returned its map, and the loop
\* writes the result to the token.
RiskVerifyFinish ==
    /\ risk_pc = "verifying"
    /\ vb_pc = "done"
    /\ risk_pc' = "verified"
    /\ risk_token' = ApplyVerification(risk_token, vb_results)
    /\ risk_unavailable' = (risk_token.address \notin DOMAIN vb_results)
    /\ risk_factors' =
          IF risk_token.address \in DOMAIN vb_results
          THEN risk_factors \o VerificationFactors(risk_token, vb_results[risk_token.address])
          ELSE risk_factors
    /\ UNCHANGED risk_first
    /\ UNCHANGED <<rateVars, batchVars, sharedVars>>

\* Lines 611-661: check_liquidity_locks on the token.
RiskLockCheck(available) ==
    /\ risk_pc = "verified"
    /\ risk_pc' = "locked"
    /\ risk_token' = IF available THEN ApplyLockCheck(risk_token, now)
                     ELSE NoLockChecker(risk_token)
    /\ UNCHANGED <<risk_unavailable, risk_factors, risk_first>>
    /\ UNCHANGED <<rateVars, batchVars, sharedVars>>

\* Lines 762-766 (and 786-790 without the stages before): the token is scored.
RiskScore ==
    /\ risk_pc \in {"new", "locked"}
    /\ risk_pc' = "scored"
    /\ risk_token' = CalculateRiskScore(risk_token)
    /\ risk_factors' = risk_factors \o ScoreFactors(risk_token)
    /\ risk_first' = [risk_score |-> risk_token'.risk_score,
                      risk_level |-> risk_token'.risk_level,
                      risk_factors |-> risk_factors']
    /\ UNCHANGED risk_unavailable
    /\ UNCHANGED <<rateVars, batchVars, sharedVars>>

\* calculate_risk_score runs again on the token, nothing else having changed.
RiskScoreAgain ==
    /\ risk_pc = "scored"
    /\ risk_pc' = "rescored"
    /\ risk_token' = CalculateRiskScore(risk_token)
    /\ risk_factors' = risk_factors \o ScoreFactors(risk_token)
    /\ UNCHANGED <<risk_unavailable, risk_first>>
    /\ UNCHANGED <<rateVars, batchVars, sharedVars>>

\* The verifier of the analyzer is new, or it is the one an earlier
\* verify_contracts has left (line 497), whose calls of the primary source
\* all failed and stored nothing in the cache.
InitRisk ==
    /\ VerifierRateConstructed \/ LimiterUsed
    /\ BatchConstructed /\ SharedConstructed /\ MultiConstructed
    /\ PipeConstructed /\ OrderConstructed /\ ScanConstructed /\ LockScoreConstructed
    /\ RepeatConstructed /\ SecConstructed
    /\ risk_token \in RiskTokens
    /\ risk_pc = "new"
    /\ risk_unavailable = FALSE
    /\ risk_factors = <<>>
    /\ risk_first = <<>>

NextRisk ==
    \/ RiskVerifierStep
    \/ \E available \in BOOLEAN :
          /\ RiskVerifyStart(available)
          /\ UNCHANGED <<multiVars, pipeVars, orderVars, scanVars, lockScoreVars, repeatVars,
                         secVars>>
    \/ /\ RiskVerifyFinish
       /\ UNCHANGED <<multiVars, pipeVars, orderVars, scanVars, lockScoreVars, repeatVars,
                      secVars>>
    \/ \E available \in BOOLEAN :
          /\ RiskLockCheck(available)
          /\ UNCHANGED <<multiVars, pipeVars, orderVars, scanVars, lockScoreVars, repeatVars,
                         secVars>>
    \/ /\ RiskScore
       /\ UNCHANGED <<multiVars, pipeVars, orderVars, scanVars, lockScoreVars, repeatVars,
                      secVars>>
    \/ /\ RiskScoreAgain
       /\ UNCHANGED <<multiVars, pipeVars, orderVars, scanVars, lockScoreVars, repeatVars,
                      secVars>>

SpecRisk == InitRisk /\ [][NextRisk]_vars

\* The levels from the safest to the worst.
Rank(level) ==
    CASE level = "low" -> 0
      [] level = "moderate" -> 1
      [] level = "medium" -> 2
      [] level = "high" -> 3
      [] level = "scam" -> 4

\* Lines 232-239: the bucket the score alone qualifies for.
ScoreBucket(score) ==
    IF score >= 120 THEN "scam"
    ELSE IF score >= 80 THEN "high"
    ELSE IF score >= 50 THEN "medium"
    ELSE IF score >= 25 THEN "moderate" ELSE "low"

\* Lines 231-280: the liquidity the score function demands of a bucket:
\* $100,000 of the lowest (line 242), $50,000 of "medium" (line 269), $25,000
\* of "high" (line 276).  The branch of "moderate" (lines 238-239) reads no
\* liquidity, and neither does that of "scam": they have no entry.
MinLiquidityOf == [low |-> 100000, medium |-> 50000, high |-> 25000]

\* C13: a scored token for which the verifier had no data and whose
\* liquidity is below $25,000 is in the worst or the next-worst bucket.
C13_UnavailableIsHighRisk ==
    (risk_pc \in {"scored", "rescored"} /\ risk_unavailable /\ risk_token.liquidity_usd < 25000)
        => risk_token.risk_level \in {"scam", "high"}

\* C20: a scored token is never in a safer bucket than the one its score
\* qualifies for; and every bucket but the worst has a minimum liquidity of
\* its own, below which the token is in a strictly riskier bucket.
C20_LiquidityGates ==
    risk_pc \in {"scored", "rescored"} =>
        LET base == ScoreBucket(risk_token.risk_score)
            final == risk_token.risk_level
        IN  /\ Rank(final) >= Rank(base)
            /\ base # "scam" =>
                  /\ base \in DOMAIN MinLiquidityOf
                  /\ risk_token.liquidity_usd < MinLiquidityOf[base] => Rank(final) > Rank(base)

(***************************************************************************)
(* Specification of one verifier asked again about the same contracts      *)
(***************************************************************************)
\* How many times the caller repeats its verify_contracts_batch call.
MaxRepeats == 1
\* How many verify_contract_multi_source calls are made beside them.
MaxSingleCalls == 1

\* The contracts of this specification: two addresses on one chain the
\* primary source supports, so that no two entries share a cache key.
RepeatAddresses == {"0xa", "0xb"}
RepeatChain == "ethereum"
RepeatLists ==
    {cs \in InputLists : cs # <<>> /\ \A i \in DOMAIN cs :
        cs[i][1] \in RepeatAddresses /\ cs[i][2] = RepeatChain}

\* The primary source knows the token as an open-source contract.
RepeatTokenInfo == [NoTokenInfo EXCEPT !.is_open_source = TRUE]

\* The keys of the addresses under which the cache holds a fresh entry.
FreshKeys(chain, addresses) ==
    {key \in {CacheKey(chain, a) : a \in addresses} :
        key \in DOMAIN cache /\ CacheFresh(cache[key][1], now)}

\* The caller calls verify_contracts_batch again with the same list
\* (lines 96-104: the call starts from an empty results dict).
BatchAgain ==
    /\ vb_pc = "done"
    /\ rp_rounds < MaxRepeats
    /\ rp_rounds' = rp_rounds + 1
    /\ vb_pc' = "init"
    /\ vb_chain' = 0
    /\ vb_tasks' = <<>>
    /\ vb_results' = EmptyMap
    /\ vb_log' = {}
    /\ UNCHANGED <<contracts, goplus_semaphore, inflight, cache>>
    /\ UNCHANGED rateVars

InitRepeat ==
    /\ VerifierRateConstructed /\ SharedConstructed /\ MultiConstructed /\ PipeConstructed
    /\ OrderConstructed /\ ScanConstructed /\ LockScoreConstructed /\ RiskConstructed
    /\ RepeatConstructed /\ SecConstructed
    /\ contracts \in RepeatLists
    /\ vb_pc = "init"
    /\ vb_chain = 0
    /\ vb_tasks = <<>>
    /\ vb_results = EmptyMap
    /\ vb_log = {}

\* The calls come one after the other: a batch call starts when no single
\* call runs, and a single call when no batch call runs.
NextRepeat ==
    \/ /\ \/ BatchStart /\ mv_pc[1] = "idle" /\ UNCHANGED repeatVars
          \/ \E k \in 1..MaxChunks : ChunkAcquire(k) /\ UNCHANGED repeatVars
          \/ \E k \in 1..MaxChunks :
                /\ ChunkSend(k)
                /\ rp_repeat' = rp_repeat \cup
                      {[key |-> key, via |-> "batch"] :
                          key \in FreshKeys(vb_tasks[k].chain, Range(vb_tasks[k].addresses))}
                /\ UNCHANGED rp_rounds
          \/ \E k \in 1..MaxChunks, outcome \in {"http_error", "api_error"} :
                ChunkResponse(k, outcome, EmptyMap) /\ UNCHANGED repeatVars
          \/ \E k \in 1..MaxChunks, found \in SUBSET RepeatAddresses :
                /\ found # {}
                /\ ChunkResponse(k, "ok", [a \in found |-> RepeatTokenInfo])
                /\ UNCHANGED repeatVars
          \/ BatchMerge /\ UNCHANGED repeatVars
          \/ BatchAgain /\ UNCHANGED rp_repeat
          \/ LimiterStep /\ UNCHANGED repeatVars
          \/ ClearCache /\ UNCHANGED repeatVars
       /\ UNCHANGED <<multiVars, pipeVars, orderVars, scanVars, lockScoreVars,
                      riskVars, secVars>>
    \/ /\ \/ \E address \in RepeatAddresses :
                /\ vb_pc \in {"init", "done"}
                /\ cache_calls < MaxSingleCalls
                /\ MultiStart(1, address, RepeatChain)
                /\ UNCHANGED rp_repeat
          \/ \E which \in {"goplus", "explorer"} :
                /\ MultiSend(1, which)
                /\ rp_repeat' = rp_repeat \cup
                      {[key |-> key, via |-> "single"] :
                          key \in FreshKeys(mv_chain[1], {mv_address[1]})}
          \/ \E outcome \in {"not_found", "unavailable"} :
                MultiGoPlusResponse(1, outcome, NoTokenInfo) /\ UNCHANGED rp_repeat
          \/ MultiGoPlusResponse(1, "found", RepeatTokenInfo) /\ UNCHANGED rp_repeat
          \/ \E outcome \in {"found", "unavailable"}, is_verified \in BOOLEAN :
                MultiExplorerResponse(1, outcome, is_verified) /\ UNCHANGED rp_repeat
       /\ UNCHANGED <<batchVars, pipeVars, orderVars, scanVars, lockScoreVars,
                      riskVars, secVars, goplus_semaphore, lock_cache, ticks, rp_rounds>>
    \/ /\ \E d \in CacheSteps : CacheTick(d)
       /\ UNCHANGED <<batchVars, pipeVars, orderVars, scanVars, lockScoreVars, riskVars,
                      repeatVars, secVars, goplus_semaphore>>

SpecRepeat == InitRepeat /\ [][NextRepeat]_vars

\* C17: no request goes out to a source for a (chain, address) whose
\* verification the cache holds and that is younger than the TTL, whether the
\* repeat comes through verify_contract_multi_source or through
\* verify_contracts_batch.
C17_NoRepeatRequest == rp_repeat = {}

\* C22: computing the assessment again for the same token, its inputs
\* unchanged, leaves the same score, the same level and the same list of
\* reasons as the first computation.
C22_PureAssessment ==
    risk_pc = "rescored" =>
        /\ risk_token.risk_score = risk_first.risk_score
        /\ risk_token.risk_level = risk_first.risk_level
        /\ risk_factors = risk_first.risk_factors

\* C27: after the scoring stage the score of a token that went through the
\* verification holds the points the verification added for its result, on
\* top of the points of the scoring stage.
C27_PenaltiesKept ==
    (risk_pc \in {"scored", "rescored"} /\ risk_token.has_verification_result
        /\ ~risk_unavailable) =>
        risk_token.risk_score >=
            RiskScoreOf(risk_token)
                + VerificationPenalty(risk_token, risk_token.verification_result)

\* The scenario: the token is on ethereum, the primary source gave it as no
\* honeypot and open source (the taxes it gave are not read by the scoring),
\* and the lock lookup gave 95% locked on a trusted platform for a year or
\* more, which scores 100.  check_liquidity_lock reports such a lock with 365
\* days (line 372), and get_lock_score gives the same points from 365 days on.
ScenarioToken ==
    /\ risk_pc \in {"scored", "rescored"}
    /\ risk_token.network = "ethereum"
    /\ risk_token.has_verification_result
    /\ risk_token.verification_result.verification_source = "GoPlus Security"
    /\ ~risk_token.verification_result.is_honeypot
    /\ risk_token.verification_result.is_verified
    /\ risk_token.liquidity_lock_info.is_locked
    /\ risk_token.liquidity_lock_info.locked_percentage = 95
    /\ risk_token.liquidity_lock_info.lock_duration_days >= 365
    /\ risk_token.liquidity_lock_info.platform \in {"Team Finance", "Unicrypt", "PinkSale"}
    /\ risk_token.liquidity_lock_score = 100

\* The points the market metrics of a token add to its score (lines 142-176
\* and 211-229): price change, age, liquidity, volume, website and socials,
\* share of the sells.
MarketPoints(token) ==
      (IF token.price_change_24h > PriceChangeSuspicious THEN 30 ELSE 0)
    + (IF token.age_hours < 24 THEN 50 ELSE IF token.age_hours < 168 THEN 20 ELSE 0)
    + (IF token.liquidity_usd < LiquidityHighRisk THEN 15 ELSE 0)
    + (IF token.liquidity_usd > 0 /\ token.volume_24h > VolLiqSuspicious * token.liquidity_usd
       THEN 25 ELSE 0)
    + (IF ~token.has_website /\ ~token.has_socials THEN 20 ELSE 0)
    + (IF token.buys_24h + token.sells_24h > 0
          /\ 10 * token.sells_24h > 8 * (token.buys_24h + token.sells_24h) THEN 25 ELSE 0)
    + (IF token.liquidity_usd > 0 /\ token.volume_24h > 20 * token.liquidity_usd THEN 25
       ELSE IF token.liquidity_usd > 0 /\ token.volume_24h > 5 * token.liquidity_usd THEN 10
       ELSE 0)
    + (IF token.price_change_24h > 500 THEN 30 ELSE 0)

\* The market metrics of the token add fewer than 25 points to the score and
\* its liquidity is at least $100,000.
CleanMarket ==
    /\ risk_token.liquidity_usd >= 100000
    /\ MarketPoints(risk_token) < 25

\* C25 as stated: the token of the scenario is in the safest bucket with a
\* score below the threshold of the medium bucket, whatever its market metrics.
C25_ScenarioIsSafest ==
    ScenarioToken => (risk_token.risk_level = "low" /\ risk_token.risk_score < 50)

\* C25 with the market metrics named: the token of the scenario whose market
\* metrics add fewer than 25 points and whose liquidity is at least $100,000
\* is in the safest bucket with a score below the threshold of the medium
\* bucket.
C25_CleanScenarioIsSafest ==
    (ScenarioToken /\ CleanMarket) =>
        (risk_token.risk_level = "low" /\ risk_token.risk_score < 50)

\* The token of the scenario, without a website and without socials, has
\* been scored: that adds 20 points, and it is in the safest bucket.
C25_Witness ==
    /\ ScenarioToken /\ CleanMarket
    /\ risk_pc = "scored"
    /\ ~risk_token.has_website /\ ~risk_token.has_socials
    /\ risk_token.risk_score = 20
    /\ risk_token.risk_level = "low"

(***************************************************************************)
(* Security analysis: SecurityAnalyzer.analyze_token_security, the update  *)
(* of the token in TokenAnalyzer.analyze_security, and the weighted sums   *)
(* of the three scorers.  Scores, weights and overall scores are Python    *)
(* floats.                                                                 *)
(***************************************************************************)
\* The order in which calculate_overall_risk fills scores
\* (security_analyzer.py:640-661); sum() follows it.
SecurityScoreOrder ==
    <<"contract_verification", "ownership_status", "liquidity_lock", "holder_distribution",
      "trading_patterns", "dexscreener", "code_audit", "community_reports">>

\* The order in which the weights of security_analyzer.py:626-635 are written.
SecurityWeightOrder ==
    <<"contract_verification", "ownership_status", "liquidity_lock", "holder_distribution",
      "trading_patterns", "code_audit", "community_reports", "dexscreener">>

\* The order of the weights and of the scores in risk_calculator.py:8-41 and
\* free_analyzer.py:100-156.
CalculatorScoreOrder ==
    <<"contract_verification", "ownership_status", "liquidity_lock", "holder_distribution",
      "trading_patterns", "code_audit", "community_reports">>

\* security_analyzer.py:626-635, with liquidity_lock and holder_distribution
\* as the two other scorers weigh them.
SecurityWeightsUnscaled ==
    [contract_verification |-> F0_15, ownership_status |-> F0_2, liquidity_lock |-> F0_25,
     holder_distribution |-> F0_15, trading_patterns |-> F0_1, code_audit |-> F0_1,
     community_reports |-> F0_05, dexscreener |-> F0_07]

\* security_analyzer.py:626-635
SecurityWeights ==
    [contract_verification |-> F0_15, ownership_status |-> F0_2, liquidity_lock |-> F0_2,
     holder_distribution |-> F0_13, trading_patterns |-> F0_1, code_audit |-> F0_1,
     community_reports |-> F0_05, dexscreener |-> F0_07]

\* seturity/risk_calculator.py:8-16
CalculatorWeights ==
    [contract_verification |-> F0_15, ownership_status |-> F0_2, liquidity_lock |-> F0_25,
     holder_distribution |-> F0_15, trading_patterns |-> F0_1, code_audit |-> F0_1,
     community_reports |-> F0_05]

\* seturity/free_analyzer.py:100-108
FreeWeights ==
    [contract_verification |-> F0_15, ownership_status |-> F0_2, liquidity_lock |-> F0_25,
     holder_distribution |-> F0_15, trading_patterns |-> F0_1, code_audit |-> F0_1,
     community_reports |-> F0_05]

Scorers == {"SecurityAnalyzer", "RiskScoreCalculator", "FreeTokenAnalyzer"}

WeightsOf(scorer) ==
    CASE scorer = "SecurityAnalyzer" -> SecurityWeights
      [] scorer = "RiskScoreCalculator" -> CalculatorWeights
      [] scorer = "FreeTokenAnalyzer" -> FreeWeights

ScoreOrderOf(scorer) ==
    IF scorer = "SecurityAnalyzer" THEN SecurityScoreOrder ELSE CalculatorScoreOrder

RECURSIVE FloatSumFrom(_, _, _)
\* sum(terms): Python adds from the left, starting from the int 0
FloatSumFrom(terms, n, total) ==
    IF n > Len(terms) THEN total
    ELSE FloatSumFrom(terms, n + 1, FAdd(total, terms[n]))

FloatSum(terms) == FloatSumFrom(terms, 1, FZero)

\* final_score = sum(scores[k] * weights[k] for k in scores)
WeightedSum(weights, order, scores) ==
    FloatSum([n \in DOMAIN order |-> FMul(scores[order[n]], weights[order[n]])])

\* sum(weights.values()), the weights in the order they are written
WeightTotal(weights, order) == FloatSum([n \in DOMAIN order |-> weights[order[n]]])

\* ---- the stages of analyze_token_security ----
\* The pairs DEXScreener may know a token by: the best, one of a DEX it does
\* not know with every warning, and one without a creation time.  Money in
\* whole dollars, the age in whole hours, the price change in whole percent.
DexPairs ==
    {[found |-> TRUE, dex_id |-> "uniswap", liquidity_usd |-> 200000, volume_24h |-> 200000,
      h24 |-> 5, age_known |-> TRUE, age_hours |-> 1000, buys |-> 10, sells |-> 8,
      websites |-> 1, socials |-> 1],
     [found |-> TRUE, dex_id |-> "", liquidity_usd |-> 1000, volume_24h |-> 3000,
      h24 |-> 400, age_known |-> TRUE, age_hours |-> 10, buys |-> 5, sells |-> 0,
      websites |-> 0, socials |-> 0],
     [found |-> TRUE, dex_id |-> "somedex", liquidity_usd |-> 50000, volume_24h |-> 1000,
      h24 |-> 0 - 60, age_known |-> FALSE, age_hours |-> 0, buys |-> 0, sells |-> 0,
      websites |-> 1, socials |-> 0]}

\* What the sources answer about one token.  contract: get_contract_data
\* gives the source of a verified contract, the dict of an unverified one
\* (also without an API key, lines 196-203), or None on an error; dangerous
\* counts the patterns found: the four signatures of the bytecode (lines
\* 263-280), and two more in the source code, which only a verified contract
\* has.  honeypot: the answer of honeypot.is.  owner: what the owner call
\* gives, "dead" the address 0x...dead, "renounced" the zero address,
\* "error" a call that fails.  dexscreener: the pair of the token or none.
SecAnswers ==
    {a \in [contract : {"verified", "unverified", "error"}, dangerous : {0, 4, 6},
            honeypot : {"yes", "no", "unknown", "error"},
            owner : {"eoa", "multisig", "timelock", "renounced", "dead", "error"},
            dexscreener : DexPairs \cup {NoPair}] :
        /\ a.contract = "error" => a.dangerous = 0
        /\ a.contract = "unverified" => a.dangerous \in {0, 4}}

\* token_analyzer.py:684-698: token_data, and with it what the stages of the
\* analysis meet.  A Token has neither total_holders nor top_10_percent:
\* getattr gives 0 and 0.0.  liquidity_lock_period 0 stands for None (both
\* are falsy at security_analyzer.py:749-751).
SecInputOf(token, answers) ==
    [contract |-> answers.contract, dangerous |-> answers.dangerous,
     honeypot |-> answers.honeypot, owner |-> answers.owner,
     liquidity_locked |-> token.liquidity_locked,
     liquidity_lock_period |-> token.liquidity_lock_period,
     top_10_percent |-> FZero,
     buys_24h |-> token.buys_24h, sells_24h |-> token.sells_24h,
     volume_24h |-> token.volume_24h, market_cap |-> token.market_cap,
     dexscreener |-> answers.dexscreener]

\* A token of the heuristic's third class of addresses.
PinkToken == "0x7e"

\* The tokens analyze_security meets, as the lock stage left them: locked for
\* 365, 730 and 30 days, not locked, and one without a pair address, which
\* the lock stage does not look up; with the trades of the day.
SecTokens ==
    {ApplyLockCheck(NewToken("0x1a", "ethereum", "0xpair", 200000, 0, 0, 0, 1000, 0, 0,
                             TRUE, FALSE), 0),
     ApplyLockCheck(NewToken(LinkToken, "ethereum", "0xpair", 200000, 8000, 10000, 0, 1000,
                             5, 5, TRUE, FALSE), 0),
     ApplyLockCheck(NewToken("0xdd", "ethereum", "0xpair", 200000, 4000, 10000, 0, 1000,
                             5, 12, TRUE, FALSE), 0),
     ApplyLockCheck(NewToken(PinkToken, "ethereum", "0xpair", 200000, 9000, 10000, 0, 1000,
                             8, 2, TRUE, FALSE), 0),
     ApplyLockCheck(NewToken("0xdd", "ethereum", "", 200000, 20000, 10000, 0, 1000,
                             3, 2, TRUE, FALSE), 0)}

SecInputs == {SecInputOf(token, answers) : token \in SecTokens, answers \in SecAnswers}

\* Lines 318-343: check_honeypot; a failing request gives the base estimate.
CheckHoneypot(honeypot) ==
    CASE honeypot = "yes" -> F0_9
      [] honeypot = "no" -> F0_1
      [] honeypot = "unknown" -> FZero
      [] honeypot = "error" -> F0_3

\* Lines 162-192: analyze_contract; get_contract_data gives None on an error.
AnalyzeContract(i) ==
    [verified |-> i.contract = "verified",
     dangerous_functions |-> i.dangerous,
     security_issues |-> i.dangerous,
     honeypot_probability |-> CheckHoneypot(i.honeypot)]

\* Lines 345-419 and 474-480: get_owner gives the zero address when the call
\* fails; determine_owner_type takes the zero address for RENOUNCED and any
\* other address that is neither a multisig nor a timelock for an EOA;
\* is_renounced knows the zero address and 0x...dead.
AnalyzeOwnership(i) ==
    [renounced |-> i.owner \in {"renounced", "dead", "error"},
     owner_type |-> CASE i.owner \in {"eoa", "dead"} -> "EOA"
                      [] i.owner = "multisig" -> "MULTISIG"
                      [] i.owner = "timelock" -> "TIMELOCK"
                      [] OTHER -> "RENOUNCED"]

F100 == FromInt(100)
F80 == FromInt(80)
F60 == FromInt(60)
F40 == FromInt(40)

\* Lines 996-1000: min(top_10_percent / 100.0, 1.0)
CalculateGiniCoefficient(i) == FMin(FDiv(i.top_10_percent, F100), FOne)

\* Lines 516-547
AnalyzeDistribution(i) ==
    [top_10_holders_percent |-> i.top_10_percent,
     gini_coefficient |-> CalculateGiniCoefficient(i),
     liquidity_locked |-> i.liquidity_locked,
     liquidity_lock_period |-> i.liquidity_lock_period]

\* Lines 1002-1012: sells / (buys + sells)
CalculateWashTradingScore(i) ==
    IF i.buys_24h + i.sells_24h = 0 THEN FZero
    ELSE FMin(FDiv(FromInt(i.sells_24h), FromInt(i.buys_24h + i.sells_24h)), FOne)

\* Lines 1014-1024: volume_24h / market_cap
CalculateOrganicVolumeRatio(i) ==
    IF i.market_cap = 0 THEN FZero
    ELSE FMin(FDiv(FromInt(i.volume_24h), FromInt(i.market_cap)), FOne)

\* Lines 549-570
AnalyzeTrading(i) ==
    [wash_trading_score |-> CalculateWashTradingScore(i),
     organic_volume_ratio |-> CalculateOrganicVolumeRatio(i)]

F3 == FromInt(3)
F6 == FromInt(6)
FMonth == FromInt(30 * 24)
F50000 == FromInt(50000)
F100000 == FromInt(100000)

\* api/dexscreener.py:273: the volume of the day over the liquidity.
VolLiqRatio(pair) ==
    IF pair.liquidity_usd > 0
    THEN FDiv(FromInt(pair.volume_24h), FromInt(pair.liquidity_usd))
    ELSE FZero

\* api/dexscreener.py:302-318: the warnings of a pair whose ratio is given.
PairWarnings(pair, ratio) ==
    {w \in {"age", "liquidity", "price", "ratio", "imbalance", "website", "socials"} :
        CASE w = "age" -> pair.age_known /\ pair.age_hours < 24 * 7
          [] w = "liquidity" -> pair.liquidity_usd < 100000
          [] w = "price" -> pair.h24 > 300 \/ pair.h24 < 0 - 50
          [] w = "ratio" -> FGt(ratio, FromInt(2)) \/ (FGt(ratio, FZero) /\ FLt(ratio, F0_05))
          [] w = "imbalance" -> pair.buys + pair.sells # 0 /\ (pair.buys = 0 \/ pair.sells = 0)
          [] w = "website" -> pair.websites = 0
          [] w = "socials" -> pair.socials = 0}

\* api/dexscreener.py:276-331: the signals of a pair whose ratio is given.
SignalsOfPair(pair, ratio) ==
    [found |-> TRUE,
     warnings |-> Cardinality(PairWarnings(pair, ratio)),
     metrics |-> [liquidity_usd |-> FromInt(pair.liquidity_usd), vol_liq_ratio |-> ratio,
                  price_change_h24 |-> FromInt(pair.h24)],
     scores |->
        [dex_trust |-> IF pair.dex_id \in {"uniswap", "sushiswap", "pancakeswap", "raydium",
                                           "quickswap", "jupiter", "syncswap"}
                       THEN FOne
                       ELSE IF pair.dex_id # "" THEN F0_6 ELSE F0_5,
         liquidity_score |-> FMin(FOne, FDiv(FromInt(pair.liquidity_usd), F100000)),
         volume_score |-> FMin(FOne, FDiv(FromInt(pair.volume_24h), F50000)),
         stability_score |->
             FMax(FZero, FMin(FOne, FSub(FOne, FDiv(FAbs(FSub(ratio, FOne)), F3)))),
         age_score |-> IF ~pair.age_known THEN FZero
                       ELSE FMax(FZero, FMin(FOne, FDiv(FromInt(pair.age_hours), FMonth))),
         metadata_score |->
             FMin(FOne, FromInt((IF pair.websites > 0 THEN 1 ELSE 0)
                                + (IF pair.socials > 0 THEN 1 ELSE 0)))]]

\* api/dexscreener.py:235-331: derive_signals_from_pair, the warnings counted.
DeriveSignalsFromPair(pair) == SignalsOfPair(pair, VolLiqRatio(pair))

\* Lines 596-600: the signals of the best pair, or {"found": False}.
DexscreenerSignals(i) ==
    IF i.dexscreener.found THEN DeriveSignalsFromPair(i.dexscreener) ELSE [found |-> FALSE]

\* Lines 686-696: 1 - the mean of the six positive scores, not below 0.
DexscreenerBaseRisk(ds) ==
    FMax(FZero,
         FSub(FOne,
              FDiv(FloatSum(<<ds.scores.dex_trust, ds.scores.liquidity_score,
                              ds.scores.volume_score, ds.scores.stability_score,
                              ds.scores.age_score, ds.scores.metadata_score>>),
                   F6)))

\* Lines 703-706: the penalty of low liquidity
AfterLiquidity(ds, risk) ==
    IF FLt(ds.metrics.liquidity_usd, FromInt(25000)) THEN FAdd(risk, F0_2)
    ELSE IF FLt(ds.metrics.liquidity_usd, F100000) THEN FAdd(risk, F0_1)
    ELSE risk

\* Lines 708-709: the penalty of a wild price
AfterPrice(ds, risk) ==
    IF FGt(ds.metrics.price_change_h24, FromInt(300))
       \/ FLt(ds.metrics.price_change_h24, FromInt(0 - 50))
    THEN FAdd(risk, F0_1) ELSE risk

\* Lines 711-712: the penalty of an odd ratio of volume to liquidity
AfterRatio(ds, risk) ==
    IF FGt(ds.metrics.vol_liq_ratio, FromInt(2))
       \/ (FGt(ds.metrics.vol_liq_ratio, FZero) /\ FLt(ds.metrics.vol_liq_ratio, F0_05))
    THEN FAdd(risk, F0_1) ELSE risk

\* Line 714: the penalty of the warnings
AfterWarnings(ds, risk) == FAdd(risk, FMin(F0_2, FMul(F0_03, FromInt(ds.warnings))))

\* Lines 675-718
CalculateDexscreenerScore(ds) ==
    IF ~ds.found THEN F0_6
    ELSE FMin(FOne,
              FMax(FZero,
                   AfterWarnings(ds, AfterRatio(ds, AfterPrice(ds,
                       AfterLiquidity(ds, DexscreenerBaseRisk(ds)))))))

\* Lines 720-733; audit_results is never filled by this analyzer.
CalculateVerificationScore(r) == IF ~r.contract_analysis.verified THEN F0_8 ELSE F0_1

\* Lines 735-744
CalculateOwnershipScore(r) ==
    IF r.ownership.renounced THEN FZero
    ELSE IF r.ownership.owner_type = "TIMELOCK" THEN F0_2
    ELSE IF r.ownership.owner_type = "MULTISIG" THEN F0_4
    ELSE F0_9

\* Lines 746-756
CalculateLiquidityScore(r) ==
    IF r.distribution.liquidity_locked
    THEN IF r.distribution.liquidity_lock_period > 365 THEN F0_1
         ELSE IF r.distribution.liquidity_lock_period > 180 THEN F0_3
         ELSE F0_5
    ELSE F0_9

\* Lines 758-770
CalculateDistributionScore(r) ==
    LET gini == r.distribution.gini_coefficient
        top_10_percent == r.distribution.top_10_holders_percent
    IN  IF FGt(gini, F0_8) \/ FGt(top_10_percent, F80) THEN F0_9
        ELSE IF FGt(gini, F0_6) \/ FGt(top_10_percent, F60) THEN F0_7
        ELSE IF FGt(gini, F0_4) \/ FGt(top_10_percent, F40) THEN F0_5
        ELSE F0_2

\* Lines 772-784
CalculateTradingScore(r) ==
    LET wash_score == r.trading.wash_trading_score
        organic_ratio == r.trading.organic_volume_ratio
    IN  IF FGt(wash_score, F0_7) \/ FLt(organic_ratio, F0_3) THEN F0_9
        ELSE IF FGt(wash_score, F0_5) \/ FLt(organic_ratio, F0_5) THEN F0_7
        ELSE IF FGt(wash_score, F0_3) \/ FLt(organic_ratio, F0_7) THEN F0_5
        ELSE F0_2

\* Lines 786-800
CalculateAuditScore(r) ==
    LET honeypot_prob == r.contract_analysis.honeypot_probability
        dangerous_funcs == r.contract_analysis.dangerous_functions
    IN  IF FGt(honeypot_prob, F0_8) THEN F0_9
        ELSE IF FGt(honeypot_prob, F0_5) THEN F0_7
        ELSE IF dangerous_funcs > 5 THEN F0_6
        ELSE IF dangerous_funcs > 2 THEN F0_4
        ELSE F0_1

\* Lines 802-811
GetRiskLevel(score) ==
    IF FGe(score, F0_8) THEN "CRITICAL"
    ELSE IF FGe(score, F0_6) THEN "HIGH"
    ELSE IF FGe(score, F0_4) THEN "MEDIUM"
    ELSE "LOW"

RECURSIVE ConfidenceFrom(_, _, _)
ConfidenceFrom(scores, rest, confidence) ==
    IF rest = <<>> THEN confidence
    ELSE ConfidenceFrom(scores, Tail(rest),
                        IF FGe(scores[Head(rest)], FZero) THEN FAdd(confidence, F0_1)
                        ELSE confidence)

\* Lines 813-821
CalculateConfidence(scores) ==
    FMin(ConfidenceFrom(scores, SecurityScoreOrder, F0_5), FOne)

\* Recommendations that name the risky signals only.
GenerateRecommendationsWarningsOnly(scores, r) ==
    (IF FGt(scores.contract_verification, F0_5)
     THEN << IF ~r.contract_analysis.verified THEN "contract not verified"
             ELSE "problems in the contract code" >>
     ELSE <<>>)
    \o (IF FGt(scores.ownership_status, F0_5)
        THEN << IF ~r.ownership.renounced THEN "ownership not renounced"
                ELSE "suspicious owner" >>
        ELSE <<>>)
    \o (IF FGt(scores.liquidity_lock, F0_5)
        THEN << IF ~r.distribution.liquidity_locked THEN "liquidity not locked"
                ELSE "short liquidity lock" >>
        ELSE <<>>)
    \o (IF FGt(scores.holder_distribution, F0_5)
        THEN <<"high concentration of holders">> ELSE <<>>)
    \o (IF FGt(r.contract_analysis.honeypot_probability, F0_5)
        THEN <<"high honeypot probability">> ELSE <<>>)

\* Lines 823-866
GenerateRecommendations(scores, r) ==
    << IF FGt(scores.contract_verification, F0_5)
       THEN IF ~r.contract_analysis.verified THEN "contract not verified"
            ELSE "problems in the contract code"
       ELSE "contract is safe",
       IF FGt(scores.ownership_status, F0_5)
       THEN IF ~r.ownership.renounced THEN "ownership not renounced"
            ELSE "suspicious owner"
       ELSE "owner is safe",
       IF FGt(scores.liquidity_lock, F0_5)
       THEN IF ~r.distribution.liquidity_locked THEN "liquidity not locked"
            ELSE "short liquidity lock"
       ELSE "liquidity is locked",
       IF FGt(scores.holder_distribution, F0_5) THEN "high concentration of holders"
       ELSE "good distribution",
       IF FGt(r.contract_analysis.honeypot_probability, F0_5) THEN "high honeypot probability"
       ELSE "no sign of a honeypot" >>

\* Lines 638-659
ScoresOf(r) ==
    [contract_verification |-> CalculateVerificationScore(r),
     ownership_status |-> CalculateOwnershipScore(r),
     liquidity_lock |-> CalculateLiquidityScore(r),
     holder_distribution |-> CalculateDistributionScore(r),
     trading_patterns |-> CalculateTradingScore(r),
     dexscreener |-> CalculateDexscreenerScore(r.dexscreener),
     code_audit |-> CalculateAuditScore(r),
     community_reports |-> F0_3]

\* Lines 663-672: the assessment of the scores.
AssessmentWith(scores, r, final_score) ==
    [overall_score |-> final_score,
     risk_level |-> GetRiskLevel(final_score),
     confidence |-> CalculateConfidence(scores),
     breakdown |-> scores,
     recommendations |-> GenerateRecommendations(scores, r)]

\* Line 663: final_score, the weighted sum of the scores.
AssessmentOf(scores, r) ==
    AssessmentWith(scores, r, WeightedSum(SecurityWeights, SecurityScoreOrder, scores))

\* Lines 624-673
CalculateOverallRisk(r) == AssessmentOf(ScoresOf(r), r)

\* The stages of lines 136-149.
StagesOf(i) ==
    [contract_analysis |-> AnalyzeContract(i),
     ownership |-> AnalyzeOwnership(i),
     distribution |-> AnalyzeDistribution(i),
     trading |-> AnalyzeTrading(i),
     dexscreener |-> DexscreenerSignals(i)]

\* Lines 120-160: the stages, then the overall risk.  Every stage catches
\* its own exceptions, and with the token_data analyze_security builds the
\* overall risk raises none.
ReportOf(staged) ==
    [contract_analysis |-> staged.contract_analysis,
     ownership |-> staged.ownership,
     distribution |-> staged.distribution,
     trading |-> staged.trading,
     dexscreener |-> staged.dexscreener,
     risk_assessment |-> CalculateOverallRisk(staged)]

AnalyzeTokenSecurity(i) == ReportOf(StagesOf(i))

\* A source failed: the stage that asked it met an error.
StageFailed(i) ==
    \/ i.contract = "error"
    \/ i.honeypot = "error"
    \/ i.owner = "error"

\* token_analyzer.py lines 703-722: the security fields of the token, taken
\* from the report.  Of the four lists of issues the loop joins (lines
\* 711-720) only the one of the contract analysis is ever filled.
SecurityFieldsOf(security_report) ==
    [security_score |-> security_report.risk_assessment.overall_score,
     contract_verified |-> security_report.contract_analysis.verified,
     ownership_renounced |-> security_report.ownership.renounced,
     liquidity_locked |-> security_report.distribution.liquidity_locked,
     honeypot_probability |-> security_report.contract_analysis.honeypot_probability,
     security_issues |-> security_report.contract_analysis.security_issues]

\* The security fields a token holds.
SecurityFieldsOfToken(token) ==
    [security_score |-> token.security_score,
     contract_verified |-> token.contract_verified,
     ownership_renounced |-> token.ownership_renounced,
     liquidity_locked |-> token.liquidity_locked,
     honeypot_probability |-> token.honeypot_probability,
     security_issues |-> token.security_issues]

\* Line 701: the analyzer hands its report back.
SecAnalyze ==
    /\ sec_pc = "new"
    /\ sec_pc' = "analyzed"
    /\ sec_report' = AnalyzeTokenSecurity(sec_in)
    /\ UNCHANGED <<sec_in, sec_token, ws_scorer, ws_scores, ws_overall>>

\* Lines 703-722: the fields of the token are taken from the report.  The
\* handler of lines 732-735 is not met: analyze_token_security catches every
\* Exception itself.
SecStore ==
    /\ sec_pc = "analyzed"
    /\ sec_pc' = "stored"
    /\ sec_token' = SecurityFieldsOf(sec_report)
    /\ UNCHANGED <<sec_in, sec_report, ws_scorer, ws_scores, ws_overall>>

\* analyze_security has come to a token the lock stage left, and the sources
\* are about to answer.
InitSecurity ==
    /\ RateConstructed /\ BatchConstructed /\ SharedConstructed /\ MultiConstructed
    /\ PipeConstructed /\ OrderConstructed /\ ScanConstructed /\ LockScoreConstructed
    /\ RiskConstructed /\ RepeatConstructed
    /\ sec_pc = "new"
    /\ \E token \in SecTokens, answers \in SecAnswers :
          /\ sec_in = SecInputOf(token, answers)
          /\ sec_token = SecurityFieldsOfToken(token)
    /\ sec_report = NoSecReport
    /\ ws_scorer = "none"
    /\ ws_scores = <<>>
    /\ ws_overall = NotComputed

NextSecurity ==
    \/ /\ SecAnalyze
       /\ UNCHANGED <<rateVars, batchVars, sharedVars, multiVars, pipeVars, orderVars,
                      scanVars, lockScoreVars, riskVars, repeatVars>>
    \/ /\ SecStore
       /\ UNCHANGED <<rateVars, batchVars, sharedVars, multiVars, pipeVars, orderVars,
                      scanVars, lockScoreVars, riskVars, repeatVars>>

SpecSecurity == InitSecurity /\ [][NextSecurity]_vars

\* ---- the weighted sum of each scorer ----
\* distribution_analyzer.py:96-131 on the holders of simulate_holders (lines
\* 96-102): the Gini coefficient (n + 1 - 2 * sum(cumsum) / cumsum[-1]) / n of
\* the balances 600000, 800000, 1000000, and the share of the top holders,
\* 20.0 + 16.0 + 12.0.
SimulatedConcentration ==
    <<FDiv(FSub(FromInt(3 + 1),
                FDiv(FMul(FromInt(2), FromInt(600000 + 1400000 + 2400000)),
                     FromInt(2400000))),
           FromInt(3)),
      FromInt(20 + 16 + 12)>>

\* The reports seturity's TokenAnalyzer.analyze_token hands to
\* RiskScoreCalculator.calculate_risk_score (token_analyzer.py:28-66), by the
\* fields of seturity/models.py the scores read: the contract verified or
\* not; the owner an EOA, the address 0x...dead (an EOA that counts as
\* renounced), a multisig, a timelock, the zero address, or the
\* OwnershipAnalysis() of a failed analysis; the liquidity never locked
\* (distribution_analyzer.py:140-163); the concentration of no holders, of
\* the simulated holders and of two holder lists of Etherscan; the trading
\* scores of token_analyzer.py:88-89; the honeypot probability 0.0, 0.1 or
\* 0.9 (contract_analyzer.py:193-213) and the number of dangerous functions.
\* An unverified contract has no source code (contract_analyzer.py:101), so
\* analyze_source_code is skipped (line 65) and only the four signatures of
\* analyze_bytecode (lines 142-157) are found in it: 0 to 4 dangerous
\* functions; a verified contract can have more.
\* audit names the worst finding of audit_results, which nothing fills.
CalculatorContracts ==
    {<<TRUE, FZero, 0>>, <<TRUE, F0_1, 0>>, <<TRUE, F0_1, 3>>, <<TRUE, F0_1, 6>>,
     <<TRUE, F0_9, 0>>,
     <<FALSE, FZero, 0>>, <<FALSE, F0_1, 0>>, <<FALSE, F0_1, 3>>, <<FALSE, F0_1, 4>>,
     <<FALSE, F0_9, 0>>}

CalculatorReports ==
    {[verified |-> contract[1], audit |-> "none",
      renounced |-> owner[2], owner_type |-> owner[1],
      liquidity_locked |-> FALSE, liquidity_lock_period |-> 0,
      concentration |-> concentration, trading |-> <<F0_2, F0_8>>,
      honeypot_probability |-> contract[2], dangerous_functions |-> contract[3]] :
        contract \in CalculatorContracts,
        owner \in {<<"EOA", FALSE>>, <<"EOA", TRUE>>, <<"MULTISIG", FALSE>>,
                   <<"TIMELOCK", FALSE>>, <<"RENOUNCED", TRUE>>, <<"UNKNOWN", FALSE>>},
        concentration \in {<<FZero, FZero>>, SimulatedConcentration,
                           <<F0_7, FromInt(65)>>, <<F0_9, FromInt(95)>>}}

\* free_analyzer.py:63-94: the report perform_basic_analysis fills in.
BasicAnalysis ==
    [verified |-> FALSE, audit |-> "none", renounced |-> TRUE, owner_type |-> "RENOUNCED",
     liquidity_locked |-> FALSE, liquidity_lock_period |-> 0,
     concentration |-> <<F0_6, FromInt(45)>>, trading |-> <<F0_2, F0_8>>,
     honeypot_probability |-> F0_1, dangerous_functions |-> 0]

\* risk_calculator.py:54-140
CalculatorScores(r) ==
    [contract_verification |->
        IF ~r.verified THEN F0_8
        ELSE CASE r.audit = "critical" -> F0_9
               [] r.audit = "high" -> F0_7
               [] r.audit = "medium" -> F0_4
               [] OTHER -> F0_1,
     ownership_status |->
        IF r.renounced THEN FZero
        ELSE IF r.owner_type = "TIMELOCK" THEN F0_2
        ELSE IF r.owner_type = "MULTISIG" THEN F0_4
        ELSE F0_9,
     liquidity_lock |->
        IF r.liquidity_locked
        THEN IF r.liquidity_lock_period > 365 THEN F0_1
             ELSE IF r.liquidity_lock_period > 180 THEN F0_3
             ELSE F0_5
        ELSE F0_9,
     holder_distribution |->
        IF FGt(r.concentration[1], F0_8) \/ FGt(r.concentration[2], F80) THEN F0_9
        ELSE IF FGt(r.concentration[1], F0_6) \/ FGt(r.concentration[2], F60) THEN F0_7
        ELSE IF FGt(r.concentration[1], F0_4) \/ FGt(r.concentration[2], F40) THEN F0_5
        ELSE F0_2,
     trading_patterns |->
        IF FGt(r.trading[1], F0_7) \/ FLt(r.trading[2], F0_3) THEN F0_9
        ELSE IF FGt(r.trading[1], F0_5) \/ FLt(r.trading[2], F0_5) THEN F0_7
        ELSE IF FGt(r.trading[1], F0_3) \/ FLt(r.trading[2], F0_7) THEN F0_5
        ELSE F0_2,
     code_audit |->
        IF FGt(r.honeypot_probability, F0_8) THEN F0_9
        ELSE IF FGt(r.honeypot_probability, F0_5) THEN F0_7
        ELSE IF r.dangerous_functions > 5 THEN F0_6
        ELSE IF r.dangerous_functions > 2 THEN F0_4
        ELSE F0_1,
     community_reports |-> F0_3]

\* free_analyzer.py:110-156
FreeScores(r) ==
    [contract_verification |-> IF r.verified THEN F0_1 ELSE F0_8,
     ownership_status |-> IF r.renounced THEN FZero ELSE F0_9,
     liquidity_lock |-> IF r.liquidity_locked THEN F0_1 ELSE F0_9,
     holder_distribution |->
        IF FGt(r.concentration[1], F0_8) THEN F0_9
        ELSE IF FGt(r.concentration[1], F0_6) THEN F0_7
        ELSE IF FGt(r.concentration[1], F0_4) THEN F0_5
        ELSE F0_2,
     trading_patterns |->
        IF FGt(r.trading[1], F0_7) THEN F0_9
        ELSE IF FGt(r.trading[1], F0_5) THEN F0_7
        ELSE IF FGt(r.trading[1], F0_3) THEN F0_5
        ELSE F0_2,
     code_audit |-> F0_3,
     community_reports |-> F0_2]

\* security_analyzer.py:638-663: the scores of the report and their sum.
SecurityAnalyzerCompute ==
    /\ ws_scorer = "SecurityAnalyzer"
    /\ ws_overall = NotComputed
    /\ ws_scores' = ScoresOf(StagesOf(sec_in))
    /\ ws_overall' = WeightedSum(SecurityWeights, SecurityScoreOrder, ws_scores')
    /\ UNCHANGED <<sec_pc, sec_in, sec_report, sec_token, ws_scorer>>

\* risk_calculator.py:18-44
CalculatorCompute ==
    /\ ws_scorer = "RiskScoreCalculator"
    /\ ws_overall = NotComputed
    /\ ws_scores' = CalculatorScores(sec_in)
    /\ ws_overall' = WeightedSum(CalculatorWeights, CalculatorScoreOrder, ws_scores')
    /\ UNCHANGED <<sec_pc, sec_in, sec_report, sec_token, ws_scorer>>

\* free_analyzer.py:96-162
FreeCompute ==
    /\ ws_scorer = "FreeTokenAnalyzer"
    /\ ws_overall = NotComputed
    /\ ws_scores' = FreeScores(sec_in)
    /\ ws_overall' = WeightedSum(FreeWeights, CalculatorScoreOrder, ws_scores')
    /\ UNCHANGED <<sec_pc, sec_in, sec_report, sec_token, ws_scorer>>

\* A scorer is about to score: the security analyzer the stages of a token,
\* the calculator a report, the free analyzer the report of its basic
\* analysis.
InitScorers ==
    /\ RateConstructed /\ BatchConstructed /\ SharedConstructed /\ MultiConstructed
    /\ PipeConstructed /\ OrderConstructed /\ ScanConstructed /\ LockScoreConstructed
    /\ RiskConstructed /\ RepeatConstructed
    /\ sec_pc = "none"
    /\ \/ ws_scorer = "SecurityAnalyzer" /\ sec_in \in SecInputs
       \/ ws_scorer = "RiskScoreCalculator" /\ sec_in \in CalculatorReports
       \/ ws_scorer = "FreeTokenAnalyzer" /\ sec_in = BasicAnalysis
    /\ sec_report = NoSecReport
    /\ sec_token = NewSecToken
    /\ ws_scores = <<>>
    /\ ws_overall = NotComputed

NextScorers ==
    \/ /\ SecurityAnalyzerCompute
       /\ UNCHANGED <<rateVars, batchVars, sharedVars, multiVars, pipeVars, orderVars,
                      scanVars, lockScoreVars, riskVars, repeatVars>>
    \/ /\ CalculatorCompute
       /\ UNCHANGED <<rateVars, batchVars, sharedVars, multiVars, pipeVars, orderVars,
                      scanVars, lockScoreVars, riskVars, repeatVars>>
    \/ /\ FreeCompute
       /\ UNCHANGED <<rateVars, batchVars, sharedVars, multiVars, pipeVars, orderVars,
                      scanVars, lockScoreVars, riskVars, repeatVars>>

SpecScorers == InitScorers /\ [][NextScorers]_vars

\* The sum of the weights of each scorer.
SecurityWeightTotal == WeightTotal(SecurityWeights, SecurityWeightOrder)
CalculatorWeightTotal == WeightTotal(CalculatorWeights, CalculatorScoreOrder)
FreeWeightTotal == WeightTotal(FreeWeights, CalculatorScoreOrder)

\* C21: the weights of every weighted-sum scorer add up to exactly 1, and
\* whenever every contribution a scorer computed lies in 0..1 its
\* overall_score lies in 0..1.
C21_WeightsSumToOne ==
    /\ SecurityWeightTotal = FOne
    /\ CalculatorWeightTotal = FOne
    /\ FreeWeightTotal = FOne
    /\ (/\ ws_overall # NotComputed
        /\ \A k \in DOMAIN ws_scores : FGe(ws_scores[k], FZero) /\ FLe(ws_scores[k], FOne))
           => (FGe(ws_overall, FZero) /\ FLe(ws_overall, FOne))

\* The security analyzer has scored a token none of whose sources answered
\* well: an unverified contract that honeypot.is calls a honeypot, an owner,
\* liquidity that is not locked, and the worst pair on DEXScreener, whose
\* contribution is 1; the overall score is above the threshold of HIGH.
C21_Witness ==
    /\ ws_scorer = "SecurityAnalyzer"
    /\ ws_overall # NotComputed
    /\ ws_scores.dexscreener = FOne
    /\ ws_scores.ownership_status = F0_9
    /\ ws_scores.liquidity_lock = F0_9
    /\ FGe(ws_overall, F0_7)

\* C24: every RiskAssessment that analyze_token_security hands back has a
\* breakdown with at least one signal and at least one recommendation.
C24_BreakdownAndRecommendations ==
    sec_pc \in {"analyzed", "stored"} =>
        /\ DOMAIN sec_report.risk_assessment.breakdown # {}
        /\ Len(sec_report.risk_assessment.recommendations) > 0

\* The analyzer has handed back the assessment of a token no signal of which
\* is risky: it names all eight signals, and its five recommendations are
\* the reassuring ones.
C24_Witness ==
    /\ sec_pc = "analyzed"
    /\ Cardinality(DOMAIN sec_report.risk_assessment.breakdown) = 8
    /\ sec_report.risk_assessment.recommendations =
          <<"contract is safe", "owner is safe", "liquidity is locked", "good distribution",
            "no sign of a honeypot">>

\* C26: a token whose security analysis met an error in one of its stages is
\* stored with the maximum security risk, security_score = 1.0.
C26_ErrorIsMaximumRisk ==
    (sec_pc = "stored" /\ StageFailed(sec_in)) => sec_token.security_score = FOne

(***************************************************************************)
(* Specification of the token analyzer pipeline                            *)
(***************************************************************************)
\* asyncio.sleep(0.1) after every token of analyze_security (line 730).
SecuritySleep == 1

\* What the sources of the security analyzer answer about a token of the
\* pipeline: all of them answer (a verified contract without dangerous
\* functions, no honeypot, an owner), or all of them fail; DEXScreener does
\* not know the token.
PipeSecAnswers ==
    {[contract |-> "verified", dangerous |-> 0, honeypot |-> "no", owner |-> "eoa",
      dexscreener |-> NoPair],
     [contract |-> "error", dangerous |-> 0, honeypot |-> "error", owner |-> "error",
      dexscreener |-> NoPair]}

\* Lines 674 and 681: the next token of tokens_to_analyze from position from
\* on, Len(tokens) + 1 when there is none.  The list leaves out the tokens
\* whose level is the worst; no level changes while the stage runs.
NextToAnalyze(from) ==
    LET rest == {i \in from..Len(tokens) : tokens[i].risk_level # "scam"}
    IN  IF rest = {} THEN Len(tokens) + 1
        ELSE CHOOSE i \in rest : \A j \in rest : i <= j

\* Lines 754-757 and 668-701: stage 3, analyze_security, when an analyzer is
\* configured; it asks the analyzer about the first token and waits, or
\* returns at once when there is no token to analyze.
AnalyzeSecurityStart ==
    /\ pipe_pc = "locked"
    /\ IF NextToAnalyze(1) > Len(tokens)
       THEN /\ pipe_pc' = "secured"
            /\ stages_done' = stages_done \cup {"security"}
            /\ UNCHANGED pipe_index
       ELSE /\ pipe_pc' = "security"
            /\ pipe_index' = NextToAnalyze(1)
            /\ UNCHANGED stages_done
    /\ UNCHANGED <<tokens, token_ids, pipe_path, scam_tokens, high_risk_tokens, medium_risk_tokens,
                   low_risk_tokens>>
    /\ UNCHANGED <<rateVars, batchVars, sharedVars>>

\* Lines 701-730: analyze_token_security hands back its report, the security
\* fields of the token are written, and the loop sleeps.  The analyzer keeps
\* no state between its requests, so the wait for its report is one wait.
\* The handler of lines 732-735 is not met: analyze_token_security catches
\* every Exception itself.
AnalyzeSecurityToken(answers) ==
    /\ pipe_pc = "security"
    /\ pipe_pc' = "security_sleep"
    /\ \E fields \in {SecurityFieldsOf(AnalyzeTokenSecurity(
                             SecInputOf(tokens[pipe_index], answers)))} :
          tokens' = [tokens EXCEPT ![pipe_index] =
                        [@ EXCEPT !.security_score = fields.security_score,
                                  !.contract_verified = fields.contract_verified,
                                  !.ownership_renounced = fields.ownership_renounced,
                                  !.liquidity_locked = fields.liquidity_locked,
                                  !.honeypot_probability = fields.honeypot_probability,
                                  !.security_issues = fields.security_issues]]
    /\ UNCHANGED <<token_ids, pipe_path, pipe_index, scam_tokens, high_risk_tokens, medium_risk_tokens,
                   low_risk_tokens, stages_done>>
    /\ UNCHANGED <<rateVars, batchVars, sharedVars>>

\* Lines 730 and 681-701, 737-740: the sleep is over; the loop goes on with
\* the next token, or the stage returns.
AnalyzeSecuritySleep ==
    /\ pipe_pc = "security_sleep"
    /\ now' = now + SecuritySleep
    /\ IF NextToAnalyze(pipe_index + 1) > Len(tokens)
       THEN /\ pipe_pc' = "secured"
            /\ stages_done' = stages_done \cup {"security"}
            /\ UNCHANGED pipe_index
       ELSE /\ pipe_pc' = "security"
            /\ pipe_index' = NextToAnalyze(pipe_index + 1)
            /\ UNCHANGED stages_done
    /\ UNCHANGED <<tokens, token_ids, pipe_path, scam_tokens, high_risk_tokens, medium_risk_tokens,
                   low_risk_tokens>>
    /\ UNCHANGED <<request_counters, counter_reset_time, last_request_time,
                   rl_pc, rl_api, rl_current_time, rl_wake, rl_calls,
                   obs_start, obs_count, adm_last, adm_gap, win_count, reset_early>>
    /\ UNCHANGED <<batchVars, sharedVars>>

InitPipe ==
    /\ VerifierRateConstructed /\ BatchConstructed /\ SharedConstructed /\ MultiConstructed
    /\ RestConstructed
    /\ tokens \in UNION {[1..n -> PipeTokens] : n \in 0..MaxTokens}
    /\ token_ids = [p \in DOMAIN tokens |-> p]
    /\ pipe_pc = "start"
    /\ pipe_path = "none"
    /\ pipe_index = 0
    /\ scam_tokens = <<>>
    /\ high_risk_tokens = <<>>
    /\ medium_risk_tokens = <<>>
    /\ low_risk_tokens = <<>>
    /\ stages_done = {}

\* What the verifier's steps leave alone.
pipeIdle == <<multiVars, pipeVars, restVars>>

\* The steps of verify_contracts_batch and of its chunk tasks, while
\* verify_contracts waits for it (line 513).
PipeVerifierStep ==
    \/ pipe_pc = "verifying" /\ BatchStart /\ UNCHANGED pipeIdle
    \/ \E k \in DOMAIN vb_tasks : pipe_pc = "verifying" /\ ChunkAcquire(k) /\ UNCHANGED pipeIdle
    \/ \E k \in DOMAIN vb_tasks : pipe_pc = "verifying" /\ ChunkSend(k) /\ UNCHANGED pipeIdle
    \/ \E k \in DOMAIN vb_tasks, outcome \in {"http_error", "exception", "api_error"} :
          pipe_pc = "verifying" /\ ChunkResponse(k, outcome, EmptyMap) /\ UNCHANGED pipeIdle
    \/ \E k \in DOMAIN vb_tasks :
          \E goplus_result \in PipeGoPlusAnswers(vb_tasks[k].addresses) :
             pipe_pc = "verifying" /\ ChunkResponse(k, "ok", goplus_result) /\ UNCHANGED pipeIdle
    \/ pipe_pc = "verifying" /\ BatchMerge /\ UNCHANGED pipeIdle
    \/ pipe_pc = "verifying" /\ LimiterStep /\ UNCHANGED pipeIdle

NextPipe ==
    \/ PipeVerifierStep
    \/ \E available \in BOOLEAN :
          VerifyContractsStart(available) /\ UNCHANGED <<multiVars, restVars>>
    \/ VerifyContractsFinish /\ UNCHANGED <<multiVars, restVars>>
    \/ \E available \in BOOLEAN :
          CheckLiquidityLocks(available) /\ UNCHANGED <<multiVars, restVars>>
    \/ AnalyzeSecurityStart /\ UNCHANGED <<multiVars, restVars>>
    \/ \E answers \in PipeSecAnswers :
          AnalyzeSecurityToken(answers) /\ UNCHANGED <<multiVars, restVars>>
    \/ AnalyzeSecuritySleep /\ UNCHANGED <<multiVars, restVars>>
    \/ BeginScoring /\ UNCHANGED <<rateVars, batchVars, sharedVars, multiVars, restVars>>
    \/ BeginScoringSync /\ UNCHANGED <<rateVars, batchVars, sharedVars, multiVars, restVars>>
    \/ ScoreToken /\ UNCHANGED <<rateVars, batchVars, sharedVars, multiVars, restVars>>
    \/ FinishAnalysis /\ UNCHANGED <<rateVars, batchVars, sharedVars, multiVars, restVars>>
    \/ \E written \in BOOLEAN :
          /\ GenerateTextReport(written)
          /\ UNCHANGED <<rateVars, batchVars, sharedVars, multiVars, restVars>>

SpecPipe == InitPipe /\ [][NextPipe]_vars

\* The positions the scoring loop has gone through.
Scored == IF pipe_pc \in {"scoring", "done", "reported"} THEN 1..(pipe_index - 1) ELSE {}

OutputLists == <<scam_tokens, high_risk_tokens, medium_risk_tokens, low_risk_tokens>>

\* C3: after analyze_all_tokens, a token whose verification result says
\* honeypot has the worst risk level.
C3_HoneypotIsScam ==
    (pipe_pc \in {"done", "reported"} /\ pipe_path = "async") =>
        \A i \in DOMAIN tokens :
            (tokens[i].has_verification_result /\ tokens[i].verification_result.is_honeypot)
                => tokens[i].risk_level = "scam"

\* C7: when the analysis has returned, every token has been scored and
\* stands exactly once in exactly one of the four output lists, also after
\* a report has sorted the tokens.
C7_ExactlyOneList ==
    pipe_pc \in {"done", "reported"} =>
        /\ Scored = DOMAIN tokens
        /\ \A i \in DOMAIN tokens :
              /\ Cardinality({l \in 1..4 : token_ids[i] \in Range2(OutputLists[l])}) = 1
              /\ \A l \in 1..4 :
                    Cardinality({p \in DOMAIN OutputLists[l] :
                                    OutputLists[l][p] = token_ids[i]}) <= 1
              /\ tokens[i].risk_level \in RiskLevels

\* The analysis has returned for two tokens, one of which no source could
\* verify and for which no lock could be looked up, and the report has put
\* the second token before the first.
C7_Witness ==
    /\ pipe_pc = "reported"
    /\ pipe_path = "async"
    /\ Len(tokens) = 2
    /\ token_ids = <<2, 1>>
    /\ \E i \in DOMAIN tokens :
          /\ tokens[i].verification_result.error_message # ""
          /\ tokens[i].pair_address = ""
          /\ token_ids[i] \in Range2(low_risk_tokens) \cup Range2(medium_risk_tokens)

\* C8: whenever a token is being scored or has been scored, the verification
\* stage and the lock stage have returned.
C8_ScoreAfterInputs ==
    pipe_pc \in {"scoring", "done", "reported"} =>
        {"verification", "locks"} \subseteq stages_done

====
